---- MODULE Spec2Model ----
(***************************************************************************)
(* FreeCAD MCP gateway (freecad_mcp_server.py) composed with the client    *)
(* transport bridge (freecad_mcp_client.py).                               *)
(*                                                                         *)
(* Wire bytes are modelled as sequences of segments.  A segment is an       *)
(* indivisible run of bytes of a JSON text; a read may split a text at any  *)
(* segment boundary.  One boundary lies inside the two-byte UTF-8 encoding  *)
(* of a non-ASCII character (segments "P:acc/1" and "P:acc/2").            *)
(***************************************************************************)
EXTENDS Integers, Sequences, FiniteSets, TLC

\* ---------------------------------------------------------------- bounds
MaxConns == 3            \* connection attempts made by peers
MaxSends == 2            \* payloads a raw peer writes on one connection
MaxCalls == 2            \* calls of send_command_to_freecad
MaxEvents == 2           \* writes and closes made by raw peers
MaxTime == 2             \* clock horizon
SlowExec == 2            \* duration of a long-running exec (> connection_timeout)
max_clients == 2         \* self.max_clients, scaled
connection_timeout == 1  \* self.connection_timeout, scaled
buffer_size == 2         \* self.buffer_size, scaled (segments per recv)
max_buffer_size == 3     \* self.max_buffer_size, scaled
MaxDepth == 2            \* nesting of expressions in a validated syntax tree
MaxBlocks == 1           \* nesting of def/class blocks in a validated syntax tree
MaxNest == 1             \* nesting of lists and mappings in a command's parameters
MaxLines == 2            \* lines of a macro text
read_timeout == 1        \* client wait_for(..., timeout=30), scaled
MaxParams == 2           \* parameters of a run_macro request
chunk_size == 2          \* client reader.read(8192), scaled
response_limit == 3      \* client limit 10 * 1024 * 1024, scaled
BridgeTime == 3          \* clock horizon of a tool call
MaxStmts == 3            \* statements of a program given to execute_code
MaxPresses == 4          \* presses of the Start button

Conns == 1..MaxConns

Min(a, b) == IF a < b THEN a ELSE b

\* ------------------------------------------------------- security policy
ALLOWED_MODULES ==
    {"FreeCAD", "Part", "Draft", "Sketcher", "PartDesign", "math", "numpy",
     "Mesh", "Arch", "TechDraw", "Spreadsheet", "Drawing", "Import", "App",
     "Gui", "FreeCADGui"}

DANGEROUS_BUILTINS ==
    {"__import__", "eval", "exec", "compile", "open", "__builtins__",
     "globals", "locals", "vars", "setattr", "delattr"}

DANGEROUS_ATTRIBUTES ==
    {"__code__", "__globals__", "__dict__", "__class__", "__subclasses__",
     "__bases__", "__mro__"}

\* ------------------------------------------------------------ code / AST
\* An AST node: node class, alias names (dotted names as sequences of
\* parts), identifier or attribute name, child nodes in field order.
Node(cls, names, id, children) ==
    [node |-> cls, names |-> names, id |-> id, children |-> children]

Const == Node("Constant", <<>>, "", <<>>)

\* ast.Name: id is the identifier (the visitor does not read ctx).
Name(id) == Node("Name", <<>>, id, <<>>)

\* ast.alias: name as the sequence of its dot-separated parts, id the asname
\* ("" for none).
Alias(name, asname) == Node("alias", <<name>>, asname, <<>>)

\* ast.Import: node.names are its alias children; "names" lists their names.
Import(aliases) ==
    Node("Import", [i \in 1..Len(aliases) |-> aliases[i].names[1]], "", aliases)

\* ast.ImportFrom: "names" holds node.module (<<>> when it is None, as in
\* `from . import x`).
ImportFrom(module) ==
    Node("ImportFrom", IF module = <<>> THEN <<>> ELSE <<module>>, "",
         << Alias(<<"x">>, "") >>)

\* The code strings of the model and what ast.parse returns for them.
\* "syntax" is TRUE when ast.parse raises SyntaxError.
CodeTable ==
    ("import os" :>
        [syntax |-> FALSE,
         tree |-> Node("Module", <<>>, "",
                    << Import(<< Alias(<<"os">>, "") >>) >>)]) @@
    ("result = 2 + 2" :>
        [syntax |-> FALSE,
         tree |-> Node("Module", <<>>, "",
                    << Node("Assign", <<>>, "",
                         << Node("Name", <<>>, "result", <<>>),
                            Node("BinOp", <<>>, "", <<Const, Const>>) >>) >>)]) @@
    ("s = 'e-acute'" :>
        [syntax |-> FALSE,
         tree |-> Node("Module", <<>>, "",
                    << Node("Assign", <<>>, "",
                         << Node("Name", <<>>, "s", <<>>), Const >>) >>)]) @@
    ("open('f')" :>
        [syntax |-> FALSE,
         tree |-> Node("Module", <<>>, "",
                    << Node("Expr", <<>>, "",
                         << Node("Call", <<>>, "",
                              << Node("Name", <<>>, "open", <<>>), Const >>) >>) >>)]) @@
    ("1/0" :>
        [syntax |-> FALSE,
         tree |-> Node("Module", <<>>, "",
                    << Node("Expr", <<>>, "",
                         << Node("BinOp", <<>>, "", <<Const, Const>>) >>) >>)]) @@
    ("raise SystemExit" :>
        [syntax |-> FALSE,
         tree |-> Node("Module", <<>>, "",
                    << Node("Raise", <<>>, "",
                         << Node("Name", <<>>, "SystemExit", <<>>) >>) >>)]) @@
    ("def (" :>
        [syntax |-> TRUE, tree |-> Node("Module", <<>>, "", <<>>)])

Codes == DOMAIN CodeTable

RECURSIVE Flatten(_)
Flatten(ss) == IF ss = <<>> THEN <<>> ELSE Head(ss) \o Flatten(Tail(ss))

\* visit_Import: one violation per alias whose top-level module is not allowed.
visit_Import(n) ==
    Flatten([i \in 1..Len(n.names) |->
        IF Head(n.names[i]) \notin ALLOWED_MODULES
        THEN << <<"Importing module", n.names[i]>> >> ELSE <<>>])

\* mutant: from-imports are not checked
visit_ImportFrom_m(n) == <<>>

\* visit_ImportFrom: node.module is the single dotted name; <<>> models None.
visit_ImportFrom(n) ==
    IF n.names # <<>> /\ Head(n.names) # <<>>
       /\ Head(Head(n.names)) \notin ALLOWED_MODULES
    THEN << <<"Importing from module", Head(n.names)>> >> ELSE <<>>

\* mutant: bare names are not checked
visit_Name_m(n) == <<>>

visit_Name(n) ==
    IF n.id \in DANGEROUS_BUILTINS THEN << <<"Using", <<n.id>>>> >> ELSE <<>>

\* mutant: every attribute access is a violation
visit_Attribute_m(n) == << <<"Accessing attribute", <<n.id>>>> >>

visit_Attribute(n) ==
    IF n.id \in DANGEROUS_ATTRIBUTES
    THEN << <<"Accessing attribute", <<n.id>>>> >> ELSE <<>>

\* visit_Call: node.func is the first child.
visit_Call(n) ==
    IF n.children # <<>> /\ Head(n.children).node = "Name"
       /\ Head(n.children).id \in DANGEROUS_BUILTINS
    THEN << <<"Calling", <<Head(n.children).id>>>> >> ELSE <<>>

\* mutant: visit_Call does not go on into the call's children
Continues_m(cls) == cls # "Call"

\* Every visit_* method ends with self.generic_visit(node) (lines 64, 75,
\* 83, 91, 100); for the other node classes visit is generic_visit itself.
Continues(cls) == TRUE

\* SecurityVisitor.visit: the node's own check, then generic_visit.
RECURSIVE SecurityVisitor(_)
SecurityVisitor(n) ==
    (CASE n.node = "Import" -> visit_Import(n)
       [] n.node = "ImportFrom" -> visit_ImportFrom(n)
       [] n.node = "Name" -> visit_Name(n)
       [] n.node = "Attribute" -> visit_Attribute(n)
       [] n.node = "Call" -> visit_Call(n)
       [] OTHER -> <<>>)
    \o (IF Continues(n.node)
        THEN Flatten([i \in 1..Len(n.children) |-> SecurityVisitor(n.children[i])])
        ELSE <<>>)

\* lines 46-108 of validate_code_safety, on what ast.parse did with the
\* code: (is_safe, errors); the message returned is the errors joined.
validate_parsed(parsed) ==
    IF parsed.syntax
    THEN [is_safe |-> FALSE, errors |-> << <<"Syntax error", <<>>>> >>]
    ELSE LET errs == SecurityVisitor(parsed.tree)
         IN [is_safe |-> errs = <<>>, errors |-> errs]

\* validate_code_safety(code) -> (is_safe, errors)
validate_code_safety(code) == validate_parsed(CodeTable[code])

\* -------------------------------- the validator of test_validation.py
\* (demo_validation.py, lines 14-30, has the same three sets)
test_ALLOWED_MODULES ==
    {"FreeCAD", "Part", "Draft", "Sketcher", "PartDesign", "math", "numpy",
     "Mesh", "Arch", "TechDraw", "Spreadsheet", "Drawing", "Import", "App",
     "Gui", "FreeCADGui"}

test_DANGEROUS_BUILTINS ==
    {"__import__", "eval", "exec", "compile", "open", "__builtins__",
     "globals", "locals", "vars", "dir", "getattr", "setattr", "delattr",
     "hasattr"}

test_DANGEROUS_ATTRIBUTES ==
    {"__code__", "__globals__", "__dict__", "__class__", "__subclasses__",
     "__bases__", "__mro__"}

test_visit_Import(n) ==
    Flatten([i \in 1..Len(n.names) |->
        IF Head(n.names[i]) \notin test_ALLOWED_MODULES
        THEN << <<"Importing module", n.names[i]>> >> ELSE <<>>])

test_visit_ImportFrom(n) ==
    IF n.names # <<>> /\ Head(n.names) # <<>>
       /\ Head(Head(n.names)) \notin test_ALLOWED_MODULES
    THEN << <<"Importing from module", Head(n.names)>> >> ELSE <<>>

test_visit_Name(n) ==
    IF n.id \in test_DANGEROUS_BUILTINS THEN << <<"Using", <<n.id>>>> >> ELSE <<>>

test_visit_Attribute(n) ==
    IF n.id \in test_DANGEROUS_ATTRIBUTES
    THEN << <<"Accessing attribute", <<n.id>>>> >> ELSE <<>>

test_visit_Call(n) ==
    IF n.children # <<>> /\ Head(n.children).node = "Name"
       /\ Head(n.children).id \in test_DANGEROUS_BUILTINS
    THEN << <<"Calling", <<Head(n.children).id>>>> >> ELSE <<>>

RECURSIVE test_SecurityVisitor(_)
test_SecurityVisitor(n) ==
    (CASE n.node = "Import" -> test_visit_Import(n)
       [] n.node = "ImportFrom" -> test_visit_ImportFrom(n)
       [] n.node = "Name" -> test_visit_Name(n)
       [] n.node = "Attribute" -> test_visit_Attribute(n)
       [] n.node = "Call" -> test_visit_Call(n)
       [] OTHER -> <<>>)
    \o Flatten([i \in 1..Len(n.children) |-> test_SecurityVisitor(n.children[i])])

test_validate_parsed(parsed) ==
    IF parsed.syntax
    THEN [is_safe |-> FALSE, errors |-> << <<"Syntax error", <<>>>> >>]
    ELSE LET errs == test_SecurityVisitor(parsed.tree)
         IN [is_safe |-> errs = <<>>, errors |-> errs]

\* ------------------------------------- syntax trees given to a validator
\* Dotted module names, as sequences of parts.
ModuleNames == {<<"os">>, <<"math">>, <<"os", "math">>, <<"math", "os">>}

Identifiers == {"x", "eval", "getattr"}

AttrNames == {"y", "__class__"}

\* import m / import m as o / import m, n / from m import x / from . import x
ImportStmts ==
    {Import(<< Alias(m, a) >>) : m \in ModuleNames, a \in {"", "o"}}
    \cup {Import(<< Alias(<<"math">>, ""), Alias(m, "") >>) : m \in ModuleNames}
    \cup {ImportFrom(m) : m \in ModuleNames \cup {<<>>}}

\* An expression with e inside: lambda: e / [e for x in x] / f(e) / e() /
\* e.attr
ExprAround(e) ==
    {Node("Lambda", <<>>, "", << Node("arguments", <<>>, "", <<>>), e >>),
     Node("ListComp", <<>>, "",
          << e, Node("comprehension", <<>>, "", << Name("x"), Name("x") >>) >>),
     Node("Call", <<>>, "", << Name("f"), e >>),
     Node("Call", <<>>, "", << e >>)}
    \cup {Node("Attribute", <<>>, a, << e >>) : a \in AttrNames}

RECURSIVE Exprs(_)
Exprs(d) ==
    IF d = 0 THEN {Name(i) : i \in Identifiers} \cup {Const}
    ELSE LET E == Exprs(d - 1) IN E \cup UNION {ExprAround(e) : e \in E}

Pass == Node("Pass", <<>>, "", <<>>)

\* Statements without a block: imports, e / t = 0 / del t / a def with the
\* decorator e / a def with the default value e.
SimpleStmts ==
    ImportStmts
    \cup {Node("Expr", <<>>, "", << e >>) : e \in Exprs(MaxDepth)}
    \cup {Node("Assign", <<>>, "", << Name(t), Const >>) : t \in Identifiers}
    \cup {Node("Delete", <<>>, "", << Name(t) >>) : t \in Identifiers}
    \cup {Node("FunctionDef", <<>>, "",
               << Node("arguments", <<>>, "", <<>>), Pass, e >>) :
            e \in Exprs(MaxDepth)}
    \cup {Node("FunctionDef", <<>>, "",
               << Node("arguments", <<>>, "", << e >>), Pass >>) :
            e \in Exprs(MaxDepth)}

\* def f(): s / class C: s
RECURSIVE Stmts(_)
Stmts(b) ==
    IF b = 0 THEN SimpleStmts
    ELSE LET S == Stmts(b - 1) IN
         S \cup {Node("FunctionDef", <<>>, "",
                      << Node("arguments", <<>>, "", <<>>), st >>) : st \in S}
           \cup {Node("ClassDef", <<>>, "", << st >>) : st \in S}

\* What ast.parse makes of the code strings given to the validators.
ParsedCodes ==
    {[syntax |-> FALSE, tree |-> Node("Module", <<>>, "", << st >>)] :
        st \in Stmts(MaxBlocks)}
    \cup {CodeTable["def ("]}

\* ------------------------------------------------------- protocol codec
\* Segments of JSON texts.
\*   head segments   {"type": "<tag>",        ("{" alone: no "type" member)
\*   tail segments   "params": <value>}       ("}" alone: no "params" member)
\*   AccHead/AccTail the tail "params": {"code": "s = 'e-acute'"}} cut between
\*                   the two bytes 0xC3 0xA9 of the non-ASCII character
\*   "[]"            an array text, " " whitespace, "x" a byte that starts no
\*                   JSON text
HeadSegs ==
    {"{T:execute_code", "{T:get_report", "{T:list_documents", "{T:frobnicate", "{"}
TailSegs ==
    {"P:os}", "P:os/nv}", "P:ok}", "P:div}", "P:exit}", "P:null}", "P:{}}", "}"}
AccHead == "P:acc/1"
AccTail == "P:acc/2}"
Segments == {"[]", " ", "x", AccHead, AccTail} \cup HeadSegs \cup TailSegs

\* The type tag a head segment carries ("None": the key is not there).
TypeOf(seg) ==
    CASE seg = "{T:execute_code" -> "execute_code"
      [] seg = "{T:get_report" -> "get_report"
      [] seg = "{T:list_documents" -> "list_documents"
      [] seg = "{T:frobnicate" -> "frobnicate"
      [] OTHER -> "None"

\* The name of the "params" value a tail segment carries.
ParamsOf(seg) ==
    CASE seg = "P:os}" -> "P:os"
      [] seg = "P:os/nv}" -> "P:os/nv"
      [] seg = "P:ok}" -> "P:ok"
      [] seg = "P:div}" -> "P:div"
      [] seg = "P:exit}" -> "P:exit"
      [] seg = "P:null}" -> "P:null"
      [] seg = "P:{}}" -> "P:{}"
      [] OTHER -> "absent"

\* The value of the "params" member, by name.
\* code "None" / validate "absent": the key is not in the mapping.
ParamsTable ==
    ("P:os" :> [kind |-> "dict", code |-> "import os", validate |-> "absent"]) @@
    ("P:os/nv" :> [kind |-> "dict", code |-> "import os", validate |-> "false"]) @@
    ("P:ok" :> [kind |-> "dict", code |-> "result = 2 + 2", validate |-> "absent"]) @@
    ("P:acc" :> [kind |-> "dict", code |-> "s = 'e-acute'", validate |-> "absent"]) @@
    ("P:div" :> [kind |-> "dict", code |-> "1/0", validate |-> "absent"]) @@
    ("P:exit" :> [kind |-> "dict", code |-> "raise SystemExit", validate |-> "absent"]) @@
    ("P:{}" :> [kind |-> "dict", code |-> "None", validate |-> "absent"]) @@
    ("P:null" :> [kind |-> "null", code |-> "None", validate |-> "absent"])

\* bytes.decode('utf-8'): fails when a multi-byte character is cut or a
\* continuation byte stands alone.
Utf8Valid(b) ==
    \A i \in 1..Len(b) :
        /\ b[i] = AccHead => (i < Len(b) /\ b[i + 1] = AccTail)
        /\ b[i] = AccTail => (i > 1 /\ b[i - 1] = AccHead)

RECURSIVE StripLeft(_)
StripLeft(b) == IF b # <<>> /\ Head(b) = " " THEN StripLeft(Tail(b)) ELSE b

RECURSIVE StripRight(_)
StripRight(b) ==
    IF b # <<>> /\ b[Len(b)] = " " THEN StripRight(SubSeq(b, 1, Len(b) - 1)) ELSE b

JSONDecodeError ==
    [status |-> "JSONDecodeError", kind |-> "none", type |-> "None", params |-> "absent"]

UnicodeDecodeError ==
    [status |-> "UnicodeDecodeError", kind |-> "none", type |-> "None", params |-> "absent"]

\* json.loads(text): exactly one JSON value surrounded by optional whitespace.
json_loads(text) ==
    LET t == StripRight(StripLeft(text)) IN
    IF t = <<"[]">>
    THEN [status |-> "ok", kind |-> "list", type |-> "None", params |-> "absent"]
    ELSE IF Len(t) = 2 /\ t[1] \in HeadSegs /\ t[2] \in TailSegs
    THEN [status |-> "ok", kind |-> "dict", type |-> TypeOf(t[1]),
          params |-> ParamsOf(t[2])]
    ELSE IF Len(t) = 3 /\ t[1] \in HeadSegs /\ t[2] = AccHead /\ t[3] = AccTail
    THEN [status |-> "ok", kind |-> "dict", type |-> TypeOf(t[1]), params |-> "P:acc"]
    ELSE JSONDecodeError

\* json.loads(self.buffer[client].decode('utf-8'))
Decode(b) == IF Utf8Valid(b) THEN json_loads(b) ELSE UnicodeDecodeError

\* json.dumps(command, ensure_ascii=False).encode('utf-8') of a command
\* mapping: keys in insertion order; a key that is not in the mapping is
\* not written.
Encode(command) ==
    << CHOOSE seg \in HeadSegs : TypeOf(seg) = command.type >>
    \o (IF command.params = "P:acc" THEN <<AccHead, AccTail>>
        ELSE << CHOOSE seg \in TailSegs : ParamsOf(seg) = command.params >>)

\* --------------------------------------------------- command dispatcher
Response(result, message, detail, traceback) ==
    [result |-> result, message |-> message, detail |-> detail, traceback |-> traceback]

NoResponse == Response("none", "", <<>>, FALSE)

\* What exec(code, safe_globals) raises: "none", "Exception" (an instance of
\* a subclass of Exception) or "BaseException" (SystemExit,
\* KeyboardInterrupt, GeneratorExit: not instances of Exception).
CodeRaises(code) ==
    CASE code = "1/0" -> "Exception"
      [] code = "raise SystemExit" -> "BaseException"
      [] OTHER -> "none"

\* line 1787: except Exception
Catches(raises) == raises = "Exception"

\* Python truthiness of the 'validate' argument.
Truthy(validate) == validate # "false"

\* handle_execute_code(code, validate) -> response and the code given to exec
handle_execute_code(code, validate) ==
    IF code = "None"
    THEN [raised |-> FALSE, base |-> FALSE, execd |-> "None",
          response |-> Response("error", "code parameter required", <<>>, FALSE)]
    ELSE IF Truthy(validate) /\ ~validate_code_safety(code).is_safe
    THEN [raised |-> FALSE, base |-> FALSE, execd |-> "None",
          response |-> Response("error", "Security validation failed",
                                validate_code_safety(code).errors, FALSE)]
    ELSE IF Catches(CodeRaises(code))
    THEN [raised |-> FALSE, base |-> FALSE, execd |-> code,
          response |-> Response("error", "exception", <<>>, TRUE)]
    ELSE IF CodeRaises(code) # "none"
    THEN [raised |-> TRUE, base |-> TRUE, execd |-> code, response |-> NoResponse]
    ELSE [raised |-> FALSE, base |-> FALSE, execd |-> code,
          response |-> Response("success", "Code executed successfully", <<>>, FALSE)]

handle_get_report ==
    [raised |-> FALSE, base |-> FALSE, execd |-> "None",
     response |-> Response("success", "report", <<>>, FALSE)]

AttributeError ==
    [raised |-> TRUE, base |-> FALSE, execd |-> "None", response |-> NoResponse]

\* params.get(key, default) on a mapping
ParamsGet(params, key, default) ==
    IF key = "code" THEN params.code
    ELSE IF params.validate = "absent" THEN default ELSE params.validate

\* mutant: an unknown type tag raises
UnknownCommand_m(command_type) == AttributeError

\* line 492: the answer to a type tag no branch matched
UnknownCommand(command_type) ==
    [raised |-> FALSE, base |-> FALSE, execd |-> "None",
     response |-> Response("error", "Unknown command",
                      << <<"Unknown command", <<command_type>>>> >>, FALSE)]

\* execute_command(command): command is what json.loads returned.
execute_command(command) ==
    IF command.kind # "dict" THEN AttributeError      \* command.get
    ELSE LET command_type == command.type
             params == IF command.params = "absent" THEN ParamsTable["P:{}"]
                       ELSE ParamsTable[command.params]
         IN IF command_type = "get_report" THEN handle_get_report
            \* line 386: no handle_list_documents is defined on the class
            ELSE IF command_type = "list_documents" THEN AttributeError
            ELSE IF command_type = "execute_code"
            THEN IF params.kind # "dict" THEN AttributeError   \* params.get
                 ELSE handle_execute_code(ParamsGet(params, "code", "None"),
                                          ParamsGet(params, "validate", "true"))
            ELSE UnknownCommand(command_type)

\* ------------------------------------------------------ peers' payloads
\* Commands handed to send_command_to_freecad.
Commands ==
    {[type |-> "execute_code", params |-> "P:os"],
     [type |-> "execute_code", params |-> "P:os/nv"],
     [type |-> "get_report", params |-> "P:null"],
     [type |-> "execute_code", params |-> "P:null"],
     [type |-> "frobnicate", params |-> "P:{}"],
     [type |-> "list_documents", params |-> "P:{}"],
     [type |-> "execute_code", params |-> "P:div"],
     [type |-> "execute_code", params |-> "P:exit"]}

\* Commands whose type tag the dispatch table has or has not.
DispatchCommands ==
    {[type |-> "frobnicate", params |-> "P:{}"],
     [type |-> "None", params |-> "absent"],
     [type |-> "get_report", params |-> "P:{}"]}

\* Byte strings a peer that does not use the client may write.
RawPayloads ==
    {Encode([type |-> "execute_code", params |-> "P:acc"]),
     Encode([type |-> "execute_code", params |-> "P:ok"]),
     <<"[]">>, <<"x">>, <<" ", " ">>}

\* ------------------------------------------------- JSON texts, byte by byte
\* A text is a sequence of characters, a byte string a sequence of bytes.
\* An ASCII character is one byte, written as the character; E_ACUTE is a
\* character outside ASCII, whose UTF-8 form is the two bytes C3 A9.
QUOTE == "\""
BACKSLASH == "\\"
E_ACUTE == "e-acute"

\* Python values that json.dumps writes: str, int, None, list, dict with str
\* keys (items: the values of a list, the <<key, value>> pairs of a dict in
\* insertion order).
Str(s) == [t |-> "str", s |-> s, items |-> <<>>]
Num == [t |-> "int", s |-> <<"1">>, items |-> <<>>]
None == [t |-> "None", s |-> <<>>, items |-> <<>>]
List(items) == [t |-> "list", s |-> <<>>, items |-> items]
Dict(items) == [t |-> "dict", s |-> <<>>, items |-> items]

\* json.dumps of a str with ensure_ascii=False: the quote and the backslash
\* are escaped, a character outside ASCII is written as it is.
\* mutant: the quote and the backslash are written as they are
EscapeChar_m(ch) == <<ch>>

EscapeChar(ch) ==
    IF ch = QUOTE THEN <<BACKSLASH, QUOTE>>
    ELSE IF ch = BACKSLASH THEN <<BACKSLASH, BACKSLASH>>
    ELSE <<ch>>

dumps_str(s) ==
    <<QUOTE>> \o Flatten([i \in 1..Len(s) |-> EscapeChar(s[i])]) \o <<QUOTE>>

\* json.dumps(obj, ensure_ascii=False), with its separators ", " and ": ".
RECURSIVE dumps(_)
dumps(v) ==
    CASE v.t = "str" -> dumps_str(v.s)
      [] v.t = "int" -> v.s
      [] v.t = "None" -> <<"n", "u", "l", "l">>
      [] v.t = "list" ->
            <<"[">>
            \o Flatten([i \in 1..Len(v.items) |->
                  (IF i > 1 THEN <<",", " ">> ELSE <<>>) \o dumps(v.items[i])])
            \o <<"]">>
      [] v.t = "dict" ->
            <<"{">>
            \o Flatten([i \in 1..Len(v.items) |->
                  (IF i > 1 THEN <<",", " ">> ELSE <<>>)
                  \o dumps_str(v.items[i][1]) \o <<":", " ">>
                  \o dumps(v.items[i][2])])
            \o <<"}">>

\* str.encode('utf-8'): character i is written at byte Utf8Offset(text, i),
\* in one byte or, outside ASCII, in two.
Utf8Offset(text, i) ==
    i + Cardinality({k \in 1..(i - 1) : text[k] = E_ACUTE})

encode_utf8(text) ==
    [j \in 1..Utf8Offset(text, Len(text) + 1) - 1 |->
        IF \E i \in 1..Len(text) : Utf8Offset(text, i) = j
        THEN LET i == CHOOSE i \in 1..Len(text) : Utf8Offset(text, i) = j
             IN IF text[i] = E_ACUTE THEN "C3" ELSE text[i]
        ELSE "A9"]

\* bytes.decode('utf-8'): ok is FALSE for UnicodeDecodeError (a lead byte
\* without its continuation byte, a continuation byte without a lead).
decode_utf8(b) ==
    IF \A i \in 1..Len(b) :
          /\ b[i] = "C3" => (i < Len(b) /\ b[i + 1] = "A9")
          /\ b[i] = "A9" => (i > 1 /\ b[i - 1] = "C3")
    THEN [ok |-> TRUE,
          text |-> LET lead == SelectSeq(b, LAMBDA x : x # "A9")
                   IN [i \in 1..Len(lead) |->
                         IF lead[i] = "C3" THEN E_ACUTE ELSE lead[i]]]
    ELSE [ok |-> FALSE, text |-> <<>>]

\* ---- json.loads: the JSON decoder's scanner
\* The element of a set of one element.
Only(S) == CHOOSE x \in S : TRUE

ParseFail == [ok |-> FALSE, v |-> None, rest |-> <<>>]
Parsed(v, rest) == [ok |-> TRUE, v |-> v, rest |-> rest]

RECURSIVE SkipWs(_)
SkipWs(t) == IF t # <<>> /\ Head(t) = " " THEN SkipWs(Tail(t)) ELSE t

\* The characters of a string after its opening quote, up to the closing
\* quote; acc is what was read so far.
RECURSIVE ParseChars(_, _)
ParseChars(t, acc) ==
    IF t = <<>> THEN ParseFail
    ELSE IF Head(t) = QUOTE THEN Parsed(Str(acc), Tail(t))
    ELSE IF Head(t) = BACKSLASH
    THEN IF Len(t) >= 2 /\ t[2] \in {QUOTE, BACKSLASH}
         THEN ParseChars(Tail(Tail(t)), Append(acc, t[2]))
         ELSE ParseFail
    ELSE ParseChars(Tail(t), Append(acc, Head(t)))

ParseString(t) ==
    IF t # <<>> /\ Head(t) = QUOTE THEN ParseChars(Tail(t), <<>>) ELSE ParseFail

\* The members read so far with key: value added (a key that is repeated
\* keeps its last value).
PutMember(acc, key, v) ==
    LET SameKey(m) == m[1] = key
    IN IF \E i \in 1..Len(acc) : SameKey(acc[i])
       THEN [i \in 1..Len(acc) |-> IF SameKey(acc[i]) THEN <<key, v>> ELSE acc[i]]
       ELSE Append(acc, <<key, v>>)

RECURSIVE ParseValue(_)
RECURSIVE ParseItems(_, _)
RECURSIVE ParseMembers(_, _)

\* What follows a value of an array: "]" ends it, "," goes on; acc: the
\* values read, u: the text after the value.
AfterItem(acc, u) ==
    IF u = <<>> THEN ParseFail
    ELSE IF Head(u) = "]" THEN Parsed(List(acc), Tail(u))
    ELSE IF Head(u) = "," THEN ParseItems(Tail(u), acc)
    ELSE ParseFail

\* The values of an array after "[" or after a comma; acc: those read.
ParseItems(t, acc) ==
    Only({IF ~r.ok THEN ParseFail
          ELSE AfterItem(Append(acc, r.v), SkipWs(r.rest)) :
          r \in {ParseValue(SkipWs(t))}})

\* What follows a member of an object: "}" ends it, "," goes on.
AfterMember(acc, w) ==
    IF w = <<>> THEN ParseFail
    ELSE IF Head(w) = "}" THEN Parsed(Dict(acc), Tail(w))
    ELSE IF Head(w) = "," THEN ParseMembers(Tail(w), acc)
    ELSE ParseFail

\* The value of a member after its key; u: the text after the key.
MemberValue(acc, key, u) ==
    IF u = <<>> \/ Head(u) # ":" THEN ParseFail
    ELSE Only({IF ~r.ok THEN ParseFail
               ELSE AfterMember(PutMember(acc, key, r.v), SkipWs(r.rest)) :
               r \in {ParseValue(SkipWs(Tail(u)))}})

\* The members of an object after "{" or after a comma; acc: those read.
ParseMembers(t, acc) ==
    Only({IF ~k.ok THEN ParseFail
          ELSE MemberValue(acc, k.v.s, SkipWs(k.rest)) :
          k \in {ParseString(SkipWs(t))}})

ParseValue(t) ==
    IF t = <<>> THEN ParseFail
    ELSE IF Head(t) = QUOTE THEN ParseString(t)
    ELSE IF Head(t) = "1" THEN Parsed(Num, Tail(t))
    ELSE IF Len(t) >= 4 /\ SubSeq(t, 1, 4) = <<"n", "u", "l", "l">>
    THEN Parsed(None, SubSeq(t, 5, Len(t)))
    ELSE IF Head(t) = "["
    THEN IF SkipWs(Tail(t)) # <<>> /\ Head(SkipWs(Tail(t))) = "]"
         THEN Parsed(List(<<>>), Tail(SkipWs(Tail(t))))
         ELSE ParseItems(Tail(t), <<>>)
    ELSE IF Head(t) = "{"
    THEN IF SkipWs(Tail(t)) # <<>> /\ Head(SkipWs(Tail(t))) = "}"
         THEN Parsed(Dict(<<>>), Tail(SkipWs(Tail(t))))
         ELSE ParseMembers(Tail(t), <<>>)
    ELSE ParseFail

\* json.loads(text): one value with optional whitespace around it; ok is
\* FALSE for JSONDecodeError.
loads(text) ==
    LET r == ParseValue(SkipWs(text)) IN
    IF r.ok /\ SkipWs(r.rest) = <<>> THEN [ok |-> TRUE, v |-> r.v]
    ELSE [ok |-> FALSE, v |-> None]

\* dict.get(key): the value of the key, None without it.
DictGet(d, key) ==
    IF \E i \in 1..Len(d.items) : d.items[i][1] = key
    THEN d.items[CHOOSE i \in 1..Len(d.items) : d.items[i][1] = key][2]
    ELSE None

KeyType == <<"t", "y", "p", "e">>
KeyParams == <<"p", "a", "r", "a", "m", "s">>

\* lines 197-198 of the client: json.dumps(command, ensure_ascii=False)
\* .encode('utf-8')
command_bytes(command) == encode_utf8(dumps(command))

\* lines 319, 371-372 of the gateway: json.loads(buffer.decode('utf-8')),
\* then command.get("type") and command.get("params", {}).
received_command(b) ==
    LET d == decode_utf8(b)
        r == loads(d.text)
    IN IF ~d.ok THEN [status |-> "UnicodeDecodeError", type |-> None, params |-> None]
       ELSE IF ~r.ok THEN [status |-> "JSONDecodeError", type |-> None, params |-> None]
       ELSE IF r.v.t # "dict" THEN [status |-> "AttributeError", type |-> None, params |-> None]
       ELSE [status |-> "ok",
             type |-> DictGet(r.v, KeyType),
             params |-> IF \E i \in 1..Len(r.v.items) : r.v.items[i][1] = KeyParams
                        THEN DictGet(r.v, KeyParams) ELSE Dict(<<>>)]

\* ---- the commands given to the codec
Strings == {<<>>, <<"a">>, <<E_ACUTE>>, <<"a", QUOTE>>, <<BACKSLASH, E_ACUTE>>,
            <<" ", ",">>}

Keys == {<<"a">>, <<E_ACUTE, QUOTE>>}

\* A value with v inside: [v] / [v, "a"] / {k: v} / {"x": 1, k: v}
ValueAround(v) ==
    {List(<<v>>), List(<<v, Str(<<"a">>)>>)}
    \cup {Dict(<< <<k, v>> >>) : k \in Keys}
    \cup {Dict(<< << <<"x">>, Num >>, <<k, v>> >>) : k \in Keys}

RECURSIVE Values(_)
Values(d) ==
    IF d = 0
    THEN {Str(s) : s \in Strings} \cup {Num, None, List(<<>>), Dict(<<>>)}
    ELSE LET V == Values(d - 1) IN V \cup UNION {ValueAround(v) : v \in V}

\* Parameter mappings: {} / {k: v} / {"x": 1, k: v}
ParamMappings ==
    {Dict(<<>>)}
    \cup {Dict(<< <<k, v>> >>) : k \in Keys, v \in Values(MaxNest)}
    \cup {Dict(<< << <<"x">>, Num >>, <<k, v>> >>) :
            k \in Keys, v \in Values(MaxNest)}

TypeTags == {<<"a">>, <<E_ACUTE>>, <<>>}

\* The mappings {"type": tag, "params": params} the tool functions build.
CodecCommands ==
    {Dict(<< <<KeyType, Str(tag)>>, <<KeyParams, params>> >>) :
        tag \in TypeTags, params \in ParamMappings}

\* ------------------------------------------- client: macro text and path
\* A line of code is a sequence of pieces of text: words, single spaces
\* and "#"; "FreeCADGui" is the two pieces "FreeCAD", "Gui" and
\* "PartDesign" the two pieces "Part", "Design", so that `needle in line`
\* is: the pieces of needle occur in line one after the other.
Contains(line, needle) ==
    \E i \in 0..(Len(line) - Len(needle)) :
        SubSeq(line, i + 1, i + Len(needle)) = needle

IsBlank(line) == \A i \in 1..Len(line) : line[i] = " "

\* code.strip().splitlines() of the text whose lines are `code`: the blank
\* lines at both ends go, and so do the spaces before the first and after
\* the last line that is left.
strip_splitlines(code) ==
    LET kept == {i \in 1..Len(code) : ~IsBlank(code[i])} IN
    IF kept = {} THEN <<>>
    ELSE LET first == CHOOSE i \in kept : \A j \in kept : i <= j
             last == CHOOSE i \in kept : \A j \in kept : j <= i
         IN [i \in 1..(last - first + 1) |->
               LET line == code[first + i - 1]
                   l == IF i = 1 THEN StripLeft(line) ELSE line
               IN IF i = last - first + 1 THEN StripRight(l) ELSE l]

ImportFreeCAD == <<"import", " ", "FreeCAD">>
ImportFreeCADGui == <<"import", " ", "FreeCAD", "Gui">>
ImportPart == <<"import", " ", "Part">>
ImportMath == <<"import", " ", "math">>

\* normalize_macro_code(code): the lines of the text it returns ("\n".join
\* of them; "# FreeCAD Macro\n" is the header line and an empty last line).
normalize_macro_code(code) ==
    LET lines == strip_splitlines(code)
        has_freecad == \E i \in 1..Len(lines) : Contains(lines[i], ImportFreeCAD)
        has_gui == \E i \in 1..Len(lines) : Contains(lines[i], ImportFreeCADGui)
        has_part == \E i \in 1..Len(lines) : Contains(lines[i], ImportPart)
        has_math == \E i \in 1..Len(lines) : Contains(lines[i], ImportMath)
        result_lines ==
            (IF ~has_freecad THEN << ImportFreeCAD \o <<" ", "as", " ", "App">> >>
             ELSE <<>>)
            \o (IF ~has_gui THEN << ImportFreeCADGui \o <<" ", "as", " ", "Gui">> >>
                ELSE <<>>)
            \o (IF ~has_part THEN << ImportPart >> ELSE <<>>)
            \o (IF ~has_math THEN << ImportMath >> ELSE <<>>)
    IN IF lines = <<>> THEN << <<"#", " ", "FreeCAD", " ", "Macro">>, <<>> >>
       ELSE (IF result_lines # <<>> THEN Append(result_lines, <<>>) ELSE <<>>)
            \o lines

\* The lines macro code is made of.
CodeLines ==
    {ImportFreeCAD \o <<" ", "as", " ", "App">>,
     ImportFreeCADGui \o <<" ", "as", " ", "Gui">>,
     ImportPart,
     <<"import", " ", "Part", "Design">>,
     ImportMath,
     <<"#", " ", "import", " ", "math">>,
     <<" ", " ", "x">>,
     <<"x", " ">>,
     <<" ">>,
     <<>>}

RECURSIVE SeqsUpTo(_, _)
SeqsUpTo(S, n) ==
    IF n = 0 THEN {<<>>}
    ELSE LET T == SeqsUpTo(S, n - 1)
         IN T \cup {Append(t, x) : t \in T, x \in S}

MacroCodes == SeqsUpTo(CodeLines, MaxLines)

\* ---- get_absolute_macro_path
\* A path is a sequence of pieces: names, extensions and separators.
Systems == {"Linux", "Darwin", "Windows"}

\* os.sep
Sep(system) == IF system = "Windows" THEN "\\" ELSE "/"

\* os.path.expanduser("~")
Home(system) ==
    IF system = "Windows" THEN <<"C:", "\\", "Users", "\\", "u">>
    ELSE IF system = "Darwin" THEN <<"/", "Users", "/", "u">>
    ELSE <<"/", "home", "/", "u">>

\* os.path.join(a, b): b replaces a when b starts at the root (on Windows
\* the drive of a is kept); otherwise b follows a and a separator.
path_join(system, a, b) ==
    IF b # <<>> /\ (b[1] = "/" \/ (system = "Windows" /\ b[1] = "\\"))
    THEN IF system = "Windows" THEN <<a[1]>> \o b ELSE b
    ELSE a \o <<Sep(system)>> \o b

RECURSIVE JoinAll(_, _, _)
JoinAll(system, a, names) ==
    IF names = <<>> THEN a
    ELSE JoinAll(system, path_join(system, a, <<Head(names)>>), Tail(names))

\* lines 147-152
MacroDir(system) ==
    JoinAll(system, Home(system),
        CASE system = "Windows" -> <<"AppData", "Roaming", "FreeCAD", "Macro">>
          [] system = "Darwin" -> <<"Library", "Application Support", "FreeCAD", "Macro">>
          [] OTHER -> <<".local", "share", "FreeCAD", "Macro">>)

\* lines 158-159
EnsureExtension(macro_name) ==
    IF macro_name # <<>> /\ macro_name[Len(macro_name)] = ".FCMacro"
    THEN macro_name
    ELSE Append(macro_name, ".FCMacro")

get_absolute_macro_path(system, macro_name) ==
    path_join(system, MacroDir(system), EnsureExtension(macro_name))

MacroNames ==
    {<<"test">>, <<"test", ".FCMacro">>, <<"test", ".fcmacro">>, <<>>,
     <<"sub", "/", "test">>, <<"..", "/", "test">>, <<"/", "tmp", "/", "test">>,
     <<"test", ".FCMacro", ".bak">>}

\* ------------------------------------------------------ config: load_config
Integer(digits) == [t |-> "int", s |-> <<digits>>, items |-> <<>>]
Bool(b) == [t |-> "bool", s |-> <<b>>, items |-> <<>>]

DEFAULT_CONFIG ==
    Dict(<< << <<"server">>,
               Dict(<< << <<"host">>, Str(<<"localhost">>) >>,
                       << <<"port">>, Integer("9876") >>,
                       << <<"max_clients">>, Integer("5") >>,
                       << <<"connection_timeout">>, Integer("30") >>,
                       << <<"buffer_size">>, Integer("32768") >>,
                       << <<"max_buffer_size">>, Integer("1048576") >> >>) >>,
            << <<"logging">>,
               Dict(<< << <<"max_lines">>, Integer("100") >>,
                       << <<"level">>, Str(<<"INFO">>) >> >>) >>,
            << <<"security">>,
               Dict(<< << <<"allowed_modules">>,
                          List(<<Str(<<"FreeCAD">>), Str(<<"Part">>), Str(<<"Draft">>),
                                 Str(<<"Sketcher">>), Str(<<"PartDesign">>),
                                 Str(<<"Mesh">>), Str(<<"Arch">>), Str(<<"math">>),
                                 Str(<<"numpy">>)>>) >>,
                       << <<"enable_validation">>, Bool("True") >> >>) >>,
            << <<"paths">>,
               Dict(<< << <<"macro_dir">>, Str(<<"auto">>) >> >>) >> >>)

HasKey(d, key) == \E i \in 1..Len(d.items) : d.items[i][1] = key

\* The test of _deep_merge on one key of the override: the key is in the
\* result and both values are dicts.
\* mutant: no value is merged, every key of the override replaces
BothDicts_m(result, key, value) == FALSE

BothDicts(result, key, value) ==
    /\ HasKey(result, key)
    /\ DictGet(result, key).t = "dict"
    /\ value.t = "dict"

RECURSIVE deep_merge(_, _)
RECURSIVE MergeItems(_, _)

\* The loop of _deep_merge over the items of the override that are left.
MergeItems(result, items) ==
    IF items = <<>> THEN result
    ELSE MergeItems(
            Dict(PutMember(result.items, Head(items)[1],
                    IF BothDicts(result, Head(items)[1], Head(items)[2])
                    THEN deep_merge(DictGet(result, Head(items)[1]), Head(items)[2])
                    ELSE Head(items)[2])),
            Tail(items))

\* _deep_merge(base, override); override.items() raises AttributeError for
\* an override that is not a dict.
deep_merge(base, override) == MergeItems(base, override.items)

\* The config file: there is none, or it holds this text.
NoFile == [exists |-> FALSE, text |-> <<>>]
File(text) == [exists |-> TRUE, text |-> text]

\* load_config(config_path): the defaults when the file is missing, when
\* json.load raises, and when _deep_merge raises (the file is not a dict).
load_config(file) ==
    IF ~file.exists THEN DEFAULT_CONFIG
    ELSE IF ~loads(file.text).ok THEN DEFAULT_CONFIG
    ELSE IF loads(file.text).v.t # "dict" THEN DEFAULT_CONFIG
    ELSE deep_merge(DEFAULT_CONFIG, loads(file.text).v)

\* ---- the files of the study
FileLeaves == {Str(<<"0.0.0.0">>), Num, None, List(<<Num>>), Dict(<<>>),
               Dict(<< << <<"depth">>, Num >> >>)}

SubKeys == {<<"host">>, <<"port">>, <<"level">>, <<"macro_dir">>,
            <<"allowed_modules">>, <<"extra">>}

TopKeys == {<<"server">>, <<"logging">>, <<"security">>, <<"paths">>, <<"plugins">>}

FileSections ==
    FileLeaves
    \cup {Dict(<< <<k, v>> >>) : k \in SubKeys, v \in FileLeaves}
    \cup {Dict(<< << <<"port">>, Num >>, << <<"host">>, v >> >>) : v \in FileLeaves}

FileConfigs ==
    {Dict(<< <<k, v>> >>) : k \in TopKeys, v \in FileSections}
    \cup {Dict(<< << <<"logging">>, a >>, << <<"server">>, b >> >>) :
            a \in FileLeaves, b \in {Dict(<< << <<"port">>, Num >> >>), Num}}
    \cup {Dict(<<>>), Num, None, List(<<Num>>), Str(<<"server">>)}

\* Texts json.load raises on: nothing, an object that is not closed, and
\* a key that is not quoted.
BrokenTexts == {<<>>, <<"{", QUOTE, "server", QUOTE, ":", " ", "{">>,
                <<"{", "server", ":", " ", "1", "}">>}

ConfigFiles ==
    {NoFile} \cup {File(dumps(v)) : v \in FileConfigs} \cup {File(t) : t \in BrokenTexts}

\* ------------------------------------------ gateway: run_macro, the text
\* A line of code text: a code string of CodeTable, or `key = repr` for an
\* injected parameter (key # "").
CodeLine(code) == [key |-> "", repr |-> <<>>, code |-> code]
ParamLine(key, repr) == [key |-> key, repr |-> repr, code |-> ""]
BlankLine == CodeLine("")

Infinity == [t |-> "float", s |-> <<"inf">>, items |-> <<>>]

\* repr(value) of a parameter value that json.loads made.
py_repr(value) ==
    CASE value.t = "str" -> <<"'">> \o value.s \o <<"'">>
      [] value.t = "int" -> value.s
      [] value.t = "float" -> value.s
      [] OTHER -> <<"None">>

\* What ast.parse makes of a repr text as an expression: inf is a name, the
\* others are literals.
ReprExpr(repr) == IF repr = <<"inf">> THEN Name("inf") ELSE Const

Assign(target, value) == Node("Assign", <<>>, "", << target, value >>)

\* The keys of the study and the statements ast.parse makes of the line
\* `key = value`; a key need not be an identifier.
ParamKeys == {"x", "doc_name", "eval", "x.__class__", "import os; x",
              "import math; x", "x y"}

ParamStmts(key, value) ==
    CASE key = "x.__class__" ->
            [syntax |-> FALSE,
             stmts |-> << Assign(Node("Attribute", <<>>, "__class__", << Name("x") >>),
                                 value) >>]
      [] key = "import os; x" ->
            [syntax |-> FALSE,
             stmts |-> << Import(<< Alias(<<"os">>, "") >>), Assign(Name("x"), value) >>]
      [] key = "import math; x" ->
            [syntax |-> FALSE,
             stmts |-> << Import(<< Alias(<<"math">>, "") >>), Assign(Name("x"), value) >>]
      [] key = "x y" -> [syntax |-> TRUE, stmts |-> <<>>]
      [] OTHER -> [syntax |-> FALSE, stmts |-> << Assign(Name(key), value) >>]

\* The statements of one line of a text.
LineStmts(line) ==
    IF line.key # "" THEN ParamStmts(line.key, ReprExpr(line.repr))
    ELSE IF line.code = "" THEN [syntax |-> FALSE, stmts |-> <<>>]
    ELSE [syntax |-> CodeTable[line.code].syntax,
          stmts |-> CodeTable[line.code].tree.children]

\* ast.parse(text) of a text given as its lines.
ast_parse(text) ==
    IF \E i \in 1..Len(text) : LineStmts(text[i]).syntax
    THEN CodeTable["def ("]
    ELSE [syntax |-> FALSE,
          tree |-> Node("Module", <<>>, "",
                        Flatten([i \in 1..Len(text) |-> LineStmts(text[i]).stmts]))]

\* {k: v for k, v in params.items() if k not in ['doc_name']}
user_params(params) ==
    SelectSeq(params, LAMBDA m : m[1] # "doc_name")

\* lines 644-651: the text handed on, with the parameters in front.
InjectParams(macro_code, params) ==
    IF params # <<>> /\ user_params(params) # <<>>
    THEN [i \in 1..Len(user_params(params)) |->
             ParamLine(user_params(params)[i][1], py_repr(user_params(params)[i][2]))]
         \o <<BlankLine>> \o macro_code
    ELSE macro_code

\* `if not is_safe`: the text is turned down.
\* mutant: no text is turned down
Rejected_m(validation) == FALSE

Rejected(validation) == ~validation.is_safe

NotRun(message) == [executed |-> <<>>, result |-> "error", message |-> message]
Ran(code) == [executed |-> <<code>>, result |-> "success", message |-> ""]

\* _execute_macro_file(macro_path, params) on the text read from the file:
\* the texts given to exec, and how the call ended.
execute_macro_file(macro_code, params) ==
    IF Rejected(validate_parsed(ast_parse(InjectParams(macro_code, params))))
    THEN NotRun("Macro execution failed: Code validation failed")
    ELSE Ran(InjectParams(macro_code, params))

\* handle_validate_macro_code(macro_name, code); file is the text of the
\* macro file of that name (<<>>: there is none).
handle_validate_macro_code(file, code) ==
    IF code = <<>> /\ file = <<>>
    THEN NotRun("Macro file name invalid or file does not exist")
    ELSE IF Rejected(validate_parsed(ast_parse(IF code = <<>> THEN file ELSE code)))
    THEN NotRun("Code validation failed")
    ELSE Ran(IF code = <<>> THEN file ELSE code)

\* ---- the calls of the study
ParamValues == {Num, Str(<<"a">>), Infinity}

RECURSIVE ParamMaps(_)
ParamMaps(n) ==
    IF n = 0 THEN {<<>>}
    ELSE LET P == ParamMaps(n - 1) IN
         P \cup UNION {{Append(p, <<k, v>>) :
                          k \in ParamKeys \ {p[i][1] : i \in 1..Len(p)},
                          v \in ParamValues} : p \in P}

MacroFiles == {<<CodeLine(c)>> : c \in Codes}
              \cup {<<CodeLine("result = 2 + 2"), CodeLine("import os")>>}

RunMacroArgs ==
    {[fn |-> "run_macro", file |-> f, code |-> <<>>, params |-> p] :
        f \in MacroFiles, p \in ParamMaps(MaxParams)}

ValidateMacroArgs ==
    {[fn |-> "validate_macro_code", file |-> f, code |-> c, params |-> <<>>] :
        f \in MacroFiles \cup {<<>>}, c \in MacroFiles \cup {<<>>}}

\* ------------------------------------------ client: a tool and its worker
Tools == {"create_macro", "execute_code"}

\* future.result(timeout=30), and timeout=60 in execute_code, in units of
\* the 30 s of wait_for.
ToolTimeout(tool) == IF tool = "execute_code" THEN 2 * read_timeout ELSE read_timeout

\* `len(response_data) > 10 * 1024 * 1024`
\* mutant: the size is not looked at
ResponseTooLarge_m(response_data) == FALSE

ResponseTooLarge(response_data) == Len(response_data) > response_limit

\* What reader.read(8192) returns of the bytes that have arrived.
Chunk(wire) == SubSeq(wire, 1, Min(chunk_size, Len(wire)))

\* lines 218-219: the return value of `except Exception`.
TransportError(reason) ==
    Response("error", "Failed to connect to FreeCAD server", << <<reason, <<>>>> >>, FALSE)

\* The worker's return value for the response json.loads made.
Decoded(v) == Response("decoded", "", <<v>>, FALSE)

\* lines 211-219: the bytes read up to the end of the stream are decoded;
\* a failure goes through `except Exception`.
DecodeResponse(response_data) ==
    IF ~decode_utf8(response_data).ok THEN TransportError("UnicodeDecodeError")
    ELSE IF ~loads(decode_utf8(response_data).text).ok
    THEN TransportError("JSONDecodeError")
    ELSE Decoded(loads(decode_utf8(response_data).text).v)

\* The tool's `except Exception` for the TimeoutError of future.result,
\* whose str is empty.
ToolError == Response("error", "", <<>>, TRUE)

\* ---- the calls of the study: the tool, whether its thread runs an event
\* loop, and the peer it connects to (none, or one that will write text).
RECURSIVE Padded(_, _)
Padded(text, n) == IF n = 0 THEN text ELSE Append(Padded(text, n - 1), " ")

ResponseTexts ==
    {Padded(<<"{", "}">>, n) : n \in 0..response_limit}
    \cup {<<>>, <<"1">>, <<"{">>}

BridgeArgs ==
    {[fn |-> tool, loop |-> l, listening |-> TRUE, text |-> t] :
        tool \in Tools, l \in BOOLEAN, t \in ResponseTexts}
    \cup {[fn |-> tool, loop |-> l, listening |-> FALSE, text |-> <<>>] :
            tool \in Tools, l \in BOOLEAN}

\* -------------------------------- gateway: execute_code, standard output
\* The statements of the programs of the study, by what they do:
\*   "print a", "print b"   print('a'), print('b')
\*   "raise"                raise ValueError
\*   "exit"                 raise SystemExit
\*   "rebind"               import sys; sys.stdout = sys.__stdout__
ExecStmts == {"print a", "print b", "raise", "exit", "rebind"}

\* What ast.parse makes of the statement.
StmtTrees(stmt) ==
    CASE stmt = "raise" -> << Node("Raise", <<>>, "", << Name("ValueError") >>) >>
      [] stmt = "exit" -> << Node("Raise", <<>>, "", << Name("SystemExit") >>) >>
      [] stmt = "rebind" ->
            << Import(<< Alias(<<"sys">>, "") >>),
               Assign(Node("Attribute", <<>>, "stdout", << Name("sys") >>),
                      Node("Attribute", <<>>, "__stdout__", << Name("sys") >>)) >>
      [] OTHER -> << Node("Expr", <<>>, "",
                          << Node("Call", <<>>, "", << Name("print"), Const >>) >>) >>

ProgramParsed(program) ==
    [syntax |-> FALSE,
     tree |-> Node("Module", <<>>, "",
                   Flatten([i \in 1..Len(program) |-> StmtTrees(program[i])]))]

\* The text a print statement writes.
PrintedText(stmt) == IF stmt = "print a" THEN "a" ELSE "b"

\* exec(code, safe_globals) statement by statement. stdout: what sys.stdout
\* is; buffer: what output_buffer holds; written: what was written to
\* other streams than the buffer; raised: the exception that ended it.
RECURSIVE RunStmts(_, _)
RunStmts(program, st) ==
    IF program = <<>> THEN st
    ELSE LET stmt == Head(program) IN
         IF stmt \in {"print a", "print b"}
         THEN RunStmts(Tail(program),
                 IF st.stdout = "buffer"
                 THEN [st EXCEPT !.buffer = Append(st.buffer, PrintedText(stmt))]
                 ELSE [st EXCEPT !.written = Append(st.written, PrintedText(stmt))])
         ELSE IF stmt = "rebind"
         THEN RunStmts(Tail(program), [st EXCEPT !.stdout = "__stdout__"])
         ELSE [st EXCEPT !.raised = IF stmt = "raise" THEN "Exception"
                                    ELSE "BaseException"]

\* contextlib.redirect_stdout.__enter__: sys.stdout is the buffer.
EnterRedirect(old) == "buffer"

\* contextlib.redirect_stdout.__exit__, on return and on an exception:
\* sys.stdout is the stream that was kept on entry.
\* mutant: sys.stdout is left as the code left it
ExitRedirect_m(old, current) == current

ExitRedirect(old, current) == old

\* handle_execute_code(code, validate) with sys.stdout = stdout before the
\* call: the Response (its detail is the 'output' field), sys.stdout after
\* the call, what reached other streams than the buffer, whether exec was
\* reached, and whether an exception left the handler.
execute_captured(program, validate, stdout) ==
    IF program = <<>>
    THEN [response |-> Response("error", "code parameter required", <<>>, FALSE),
          stdout |-> stdout, written |-> <<>>, executed |-> FALSE, raised |-> FALSE]
    ELSE IF Truthy(validate) /\ ~validate_parsed(ProgramParsed(program)).is_safe
    THEN [response |-> Response("error", "Security validation failed",
                                validate_parsed(ProgramParsed(program)).errors, FALSE),
          stdout |-> stdout, written |-> <<>>, executed |-> FALSE, raised |-> FALSE]
    ELSE LET run == RunStmts(program,
                       [stdout |-> EnterRedirect(stdout), buffer |-> <<>>,
                        written |-> <<>>, raised |-> "none"])
             after == ExitRedirect(stdout, run.stdout)
         IN IF Catches(run.raised)
            THEN [response |-> Response("error", "exception", <<>>, TRUE),
                  stdout |-> after, written |-> run.written, executed |-> TRUE,
                  raised |-> FALSE]
            ELSE IF run.raised # "none"
            THEN [response |-> NoResponse,
                  stdout |-> after, written |-> run.written, executed |-> TRUE,
                  raised |-> TRUE]
            ELSE [response |-> Response("success", "Code executed successfully",
                                        run.buffer, FALSE),
                  stdout |-> after, written |-> run.written, executed |-> TRUE,
                  raised |-> FALSE]

\* ---- the calls of the study
Programs == SeqsUpTo(ExecStmts, MaxStmts)

CaptureArgs ==
    {[fn |-> "execute_code", program |-> p, validate |-> v, stdout |-> s] :
        p \in Programs, v \in {"true", "false"}, s \in {"__stdout__", "console"}}

\* ------------------------------------------ gateway: run_macro, documents
\* The statements of the macros of the study, by what they do:
\*   "new"     App.newDocument('Other')   (the new document becomes active)
\*   "pass"    x = 1
\*   "raise"   raise ValueError
\*   "exit"    raise SystemExit
\*   "unsafe"  import os
MacroStmts == {"new", "pass", "raise", "exit", "unsafe"}

MacroStmtTrees(stmt) ==
    CASE stmt = "new" ->
            << Node("Expr", <<>>, "",
                    << Node("Call", <<>>, "",
                            << Node("Attribute", <<>>, "newDocument", << Name("App") >>),
                               Const >>) >>) >>
      [] stmt = "pass" -> << Assign(Name("x"), Const) >>
      [] stmt = "raise" -> << Node("Raise", <<>>, "", << Name("ValueError") >>) >>
      [] stmt = "exit" -> << Node("Raise", <<>>, "", << Name("SystemExit") >>) >>
      [] OTHER -> << Import(<< Alias(<<"os">>, "") >>) >>

MacroParsed(program) ==
    [syntax |-> FALSE,
     tree |-> Node("Module", <<>>, "",
                   Flatten([i \in 1..Len(program) |-> MacroStmtTrees(program[i])]))]

\* The documents of the application: the names of the open ones and the
\* name of the active one ("" for none).
App(docs, active) == [docs |-> docs, active |-> active]

\* App.newDocument(name): the document is opened and becomes active.
newDocument(app, name) == App(app.docs \cup {name}, name)

\* App.closeDocument(name): another open document, if any, becomes active.
closeDocument(app, name) ==
    LET rest == app.docs \ {name}
    IN App(rest, IF app.active # name THEN app.active
                 ELSE IF rest = {} THEN ""
                 ELSE CHOOSE d \in rest : TRUE)

\* exec of the macro, statement by statement: the application after it and
\* the exception that ended it.
RECURSIVE RunMacro(_, _)
RunMacro(program, app) ==
    IF program = <<>> THEN [app |-> app, raised |-> "none"]
    ELSE IF Head(program) = "new" THEN RunMacro(Tail(program), newDocument(app, "Other"))
    ELSE IF Head(program) = "raise" THEN [app |-> app, raised |-> "Exception"]
    ELSE IF Head(program) = "exit" THEN [app |-> app, raised |-> "BaseException"]
    ELSE RunMacro(Tail(program), app)

\* _execute_macro_file for the documents: validation, then exec; every
\* Exception is raised again as "Macro execution failed".
ExecuteInDocument(program, app) ==
    IF Rejected(validate_parsed(MacroParsed(program)))
    THEN [app |-> app, raised |-> "Exception"]
    ELSE RunMacro(program, app)

\* lines 590-591 and 607-608: the test on the active document.
IsActive(app, doc_name) == app.active # "" /\ app.active = doc_name

\* handle_run_macro from line 574 on (the macro file was found): the
\* Response, the application after the call, and whether an exception left
\* the handler.
handle_run_macro(app, doc_name, program) ==
    LET doc_created == doc_name \notin app.docs
        ready == IF doc_created THEN newDocument(app, doc_name)
                 ELSE App(app.docs, doc_name)
        run == ExecuteInDocument(program, ready)
    IN IF run.raised = "none"
       THEN [response |-> Response("success", "Macro executed successfully", <<>>, FALSE),
             app |-> run.app, raised |-> FALSE]
       ELSE IF Catches(run.raised)
       THEN [response |-> Response("error", "Macro execution failed", <<>>, TRUE),
             app |-> IF doc_created /\ IsActive(run.app, doc_name)
                     THEN closeDocument(run.app, doc_name)
                     ELSE run.app,
             raised |-> FALSE]
       ELSE [response |-> NoResponse, app |-> run.app, raised |-> TRUE]

\* ---- the calls of the study
DocumentSets == {{}, {"Prior"}, {"Macro"}, {"Macro", "Prior"}}

RunDocArgs ==
    {[fn |-> "run_macro", docs |-> d, active |-> a, doc_name |-> "Macro",
      program |-> p] :
        d \in DocumentSets, a \in {"", "Prior", "Macro"},
        p \in SeqsUpTo(MacroStmts, MaxStmts)}

\* ------------------------------------------------------------------ state
VARIABLES
    running,          \* self.running
    listening,        \* self.socket is a bound listening socket
    clients,          \* self.clients
    buffer,           \* self.buffer
    client_timeouts,  \* self.client_timeouts
    pc,               \* position of _process_server: "idle", "read", "timeouts"
    todo,             \* rest of the snapshot self.clients[:] being iterated
    recvStart,        \* when the current client.recv began
    now,              \* time.time()
    pending,          \* listen backlog
    net,              \* bytes written by the peer, not yet read by the gateway
    sock,             \* gateway's socket of a connection: "none", "open", "closed"
    peer,             \* peer's end: "unused", "raw", "call", "closed"
    resp,             \* Responses written by the gateway on a connection
    call,             \* state of the send_command_to_freecad call of a connection
    executed,         \* code strings that were given to exec
    escaped,          \* an exception left _process_server
    dispatched,       \* values execute_command was called with, per connection
    sent,             \* payloads written by the peer, per connection
    log,              \* last log line about a connection
    events,           \* number of writes and closes made by raw peers
    started,          \* start() was called on this server object
    parsed,           \* what ast.parse made of the code under validation
    verdict,          \* what the gateway's validate_code_safety returned
    testVerdict,      \* what test_validation.py's validator returned
    arg,              \* the arguments of the function under study
    ret,              \* what it returned (<<>>: it has not been called)
    bridge,           \* a tool call of the client: the tool, its worker, the peer
    panel             \* FreeCADMCPPanel: its server, its buttons, and the host

vars == <<running, listening, clients, buffer, client_timeouts, pc, todo,
          recvStart, now, pending, net, sock, peer, resp, call, executed, escaped,
          dispatched, sent, log, events, started, parsed, verdict,
          testVerdict, arg, ret, bridge, panel>>

serverVars == <<running, listening, clients, buffer, client_timeouts, started>>
tickVars == <<pc, todo, recvStart>>
histVars == <<executed, escaped, dispatched, log>>
envVars == <<pending, net, peer, sent, events>>
callVars == <<arg, ret, bridge, panel>>
valVars == <<parsed, verdict, testVerdict, callVars>>
gatewayVars == <<serverVars, tickVars, histVars, envVars, now, sock, resp, call>>

NoCall == [cpc |-> "none", got |-> 0, readStart |-> 0, result |-> NoResponse]

\* FreeCADMCPPanel.__init__: no server, Stop disabled; attempts counts the
\* calls of FreeCADMCPServer.start(), presses the presses of Start.
NoPanel ==
    [server |-> "none", start_button |-> TRUE, stop_button |-> FALSE,
     report_browser |-> <<>>, attempts |-> 0, presses |-> 0, gui_up |-> TRUE,
     port_in_use |-> FALSE]

\* No tool was called.
NoBridge ==
    [tpc |-> "none", start |-> 0, end |-> 0, fut |-> "none",
     wpc |-> "none", readStart |-> 0, data |-> <<>>, wres |-> NoResponse,
     wire |-> <<>>, left |-> <<>>, closed |-> FALSE]

\* FreeCADMCPServer.__init__ and the peers before they act
InitGateway ==
    /\ running = FALSE
    /\ listening = FALSE
    /\ clients = <<>>
    /\ buffer = <<>>
    /\ client_timeouts = <<>>
    /\ pc = "idle"
    /\ todo = <<>>
    /\ recvStart = 0
    /\ now = 0
    /\ pending = <<>>
    /\ net = [c \in Conns |-> <<>>]
    /\ sock = [c \in Conns |-> "none"]
    /\ peer = [c \in Conns |-> "unused"]
    /\ resp = [c \in Conns |-> <<>>]
    /\ call = [c \in Conns |-> NoCall]
    /\ executed = {}
    /\ escaped = FALSE
    /\ dispatched = [c \in Conns |-> <<>>]
    /\ sent = [c \in Conns |-> <<>>]
    /\ log = [c \in Conns |-> ""]
    /\ events = 0
    /\ started = FALSE

\* No code is under validation and no function is under study.
InitIdle ==
    /\ parsed = CodeTable["def ("]
    /\ verdict = <<>>
    /\ testVerdict = <<>>
    /\ arg = <<>>
    /\ ret = <<>>
    /\ bridge = NoBridge
    /\ panel = NoPanel

Init ==
    /\ InitGateway
    /\ InitIdle

\* A code string is handed to the validators.
InitValidator ==
    /\ InitGateway
    /\ parsed \in ParsedCodes
    /\ verdict = <<>>
    /\ testVerdict = <<>>
    /\ arg = <<>>
    /\ ret = <<>>
    /\ bridge = NoBridge
    /\ panel = NoPanel

\* ------------------------------------------------------- gateway helpers
\* mutant: the entries of the maps are left behind
Without_m(f, cs) == f

Without(f, cs) == [x \in DOMAIN f \ cs |-> f[x]]

With(f, c, v) == [x \in DOMAIN f \cup {c} |-> IF x = c THEN v ELSE f[x]]

\* mutant: a removal empties the list
RemoveAll_m(cl, cs) == IF cs = {} THEN cl ELSE <<>>

RemoveAll(cl, cs) == SelectSeq(cl, LAMBDA x : x \notin cs)

\* mutant: the limit is reached one connection early
LimitReached_early(cl) == Len(cl) >= max_clients - 1

\* mutant: the limit test is off by one
LimitReached_m(cl) == Len(cl) > max_clients

\* line 290: the connection limit test
LimitReached(cl) == Len(cl) >= max_clients

\* mutant: the new data replaces the buffer instead of being appended
Accumulate_m(buf, data) == data

\* line 308: self.buffer[client] += data
Accumulate(buf, data) == buf \o data

\* mutant: the size test lets one byte too many through
TooLarge_m(buf) == Len(buf) > max_buffer_size + 1

\* line 310: the buffer size test
TooLarge(buf) == Len(buf) > max_buffer_size

\* mutant: the idle test allows one more second
TimedOut_m(current_time, last_activity) ==
    current_time - last_activity > connection_timeout + 1

\* line 363: the idle test
TimedOut(current_time, last_activity) ==
    current_time - last_activity > connection_timeout

\* mutant: the gateway closes the connection after writing the response
Answered_m(buf) == [keep |-> FALSE, buffer |-> <<>>]

\* lines 320-323: the connection's state after its command was answered
Answered(buf) == [keep |-> TRUE, buffer |-> <<>>]

\* The gateway is inside client.recv on a socket with nothing to read.
Blocked ==
    /\ pc = "read"
    /\ net[Head(todo)] = <<>>
    /\ peer[Head(todo)] # "closed"

\* mutant: the idle-timeout check runs before the connections are read
NextPc_m(rest) == "timeouts"

NextPc(rest) == IF rest = <<>> THEN "timeouts" ELSE "read"

\* ------------------------------------------------------ gateway actions
\* FreeCADMCPServer.start()
Start ==
    /\ ~running
    /\ pc = "idle"
    /\ ~started          \* FreeCADMCPPanel.start_server starts a new object
    /\ started' = TRUE
    /\ running' = TRUE
    /\ listening' = TRUE
    /\ UNCHANGED <<clients, buffer, client_timeouts, tickVars, now, pending,
                   net, sock, peer, resp, call, histVars, sent, events>>
    /\ UNCHANGED valVars

\* FreeCADMCPServer.stop()
Stop ==
    /\ running
    /\ pc = "idle"
    /\ running' = FALSE
    /\ listening' = FALSE
    /\ sock' = [c \in Conns |->
                  IF (\E i \in 1..Len(clients) : clients[i] = c)
                     \/ (\E i \in 1..Len(pending) : pending[i] = c)
                  THEN "closed" ELSE sock[c]]
    /\ log' = [c \in Conns |->
                  IF \E i \in 1..Len(clients) : clients[i] = c
                  THEN "stopped" ELSE log[c]]
    /\ pending' = <<>>
    /\ clients' = <<>>
    /\ buffer' = <<>>
    /\ UNCHANGED <<started, client_timeouts, tickVars, now, net, peer, resp, call,
                   executed, escaped, dispatched, sent, events>>
    /\ UNCHANGED valVars

\* _process_server, lines 283-301: the accept attempt, then the snapshot
\* self.clients[:] of the read loop.
TickAccept ==
    /\ running
    /\ pc = "idle"
    /\ IF pending = <<>>
       THEN UNCHANGED <<clients, buffer, client_timeouts, sock, log, pending>>
       ELSE LET client == Head(pending) IN
            /\ pending' = Tail(pending)
            /\ IF LimitReached(clients)
               THEN /\ sock' = [sock EXCEPT ![client] = "closed"]
                    /\ log' = [log EXCEPT ![client] = "rejected"]
                    /\ UNCHANGED <<clients, buffer, client_timeouts>>
               ELSE /\ sock' = [sock EXCEPT ![client] = "open"]
                    /\ log' = [log EXCEPT ![client] = "connected"]
                    /\ clients' = Append(clients, client)
                    /\ buffer' = With(buffer, client, <<>>)
                    /\ client_timeouts' = With(client_timeouts, client, now)
    /\ todo' = clients'
    /\ pc' = NextPc(clients')
    /\ recvStart' = now
    /\ UNCHANGED <<started, running, listening, now, net, peer, resp, call, executed, escaped,
                   dispatched, sent, events>>
    /\ UNCHANGED valVars

\* lines 306-329: recv returned data
ReadData ==
    /\ pc = "read"
    /\ LET client == Head(todo) IN
       /\ net[client] # <<>>
       /\ \E k \in 1..Min(Len(net[client]), buffer_size), d \in {0, SlowExec} :
            LET data == SubSeq(net[client], 1, k)
                buf == Accumulate(buffer[client], data)
                command == Decode(buf)
                r == execute_command(command)
                outcome ==
                    CASE TooLarge(buf) -> "too large"
                      [] command.status = "UnicodeDecodeError" -> "encoding"
                      [] command.status = "JSONDecodeError" -> "incomplete"
                      [] r.raised /\ r.base -> "escaped"
                      [] r.raised -> "raised"
                      [] OTHER -> "answered"
                after == Answered(buf)
                torn == \/ outcome \in {"too large", "encoding", "raised"}
                        \/ (outcome = "answered" /\ ~after.keep)
                ran == outcome \in {"raised", "escaped", "answered"} /\ r.execd # "None"
            IN
            \E host \in IF outcome = "escaped" THEN {"goes on", "exits"}
                         ELSE {"goes on"} :
            /\ d = 0 \/ ran
            /\ now + d <= MaxTime
            /\ now' = now + d
            /\ net' = [net EXCEPT ![client] = SubSeq(net[client], k + 1, Len(net[client]))]
            /\ clients' = IF torn THEN RemoveAll(clients, {client}) ELSE clients
            /\ buffer' =
                 IF torn THEN Without(buffer, {client})
                 ELSE IF outcome = "incomplete" THEN [buffer EXCEPT ![client] = buf]
                 ELSE IF outcome = "escaped" THEN [buffer EXCEPT ![client] = <<>>]
                 ELSE [buffer EXCEPT ![client] = after.buffer]
            /\ client_timeouts' =
                 IF torn THEN Without(client_timeouts, {client})
                 ELSE [client_timeouts EXCEPT ![client] = now]
            /\ sock' = IF torn THEN [sock EXCEPT ![client] = "closed"]
                       ELSE IF outcome = "escaped" /\ host = "exits"
                       THEN [c \in Conns |->
                               IF sock[c] = "none" THEN "none" ELSE "closed"]
                       ELSE sock
            /\ resp' = IF outcome = "answered"
                       THEN [resp EXCEPT ![client] = Append(@, r.response)] ELSE resp
            /\ dispatched' = IF outcome \in {"raised", "escaped", "answered"}
                             THEN [dispatched EXCEPT ![client] = Append(@, command)]
                             ELSE dispatched
            /\ executed' = IF ran THEN executed \cup {r.execd} ELSE executed
            \* What is no Exception passes the handlers of lines 335 and 341
            \* and leaves the timer callback: the rest of the tick is
            \* skipped; the host either reports it and goes on with the
            \* next tick, or exits.
            /\ escaped' = (escaped \/ outcome = "escaped")
            /\ todo' = IF outcome = "escaped" THEN <<>> ELSE Tail(todo)
            /\ pc' = IF outcome = "escaped"
                     THEN (IF host = "exits" THEN "dead" ELSE "idle")
                     ELSE NextPc(Tail(todo))
            /\ log' = [log EXCEPT ![client] =
                         CASE outcome = "too large" -> "Client data too large"
                           [] outcome = "encoding" -> "Encoding error"
                           [] outcome = "raised" -> "Error processing client data"
                           [] OTHER -> @]
    /\ recvStart' = now'
    /\ UNCHANGED <<started, running, listening, pending, peer, call, sent, events>>
    /\ UNCHANGED valVars

\* lines 330-332: recv returned b'', the peer closed
ReadClosed ==
    /\ pc = "read"
    /\ LET client == Head(todo) IN
       /\ net[client] = <<>>
       /\ peer[client] = "closed"
       /\ clients' = RemoveAll(clients, {client})
       /\ buffer' = Without(buffer, {client})
       /\ client_timeouts' = Without(client_timeouts, {client})
       /\ sock' = [sock EXCEPT ![client] = "closed"]
       /\ log' = [log EXCEPT ![client] = "Client disconnected"]
    /\ todo' = Tail(todo)
    /\ pc' = NextPc(Tail(todo))
    /\ recvStart' = now
    /\ UNCHANGED <<started, running, listening, now, pending, net, peer, resp, call,
                   executed, escaped, dispatched, sent, events>>
    /\ UNCHANGED valVars

\* lines 295, 306, 335-337: the socket has the timeout connection_timeout
\* (settimeout after setblocking), so recv waits that long and then raises
\* socket.timeout, which is not a BlockingIOError.
ReadTimeout ==
    /\ Blocked
    /\ now - recvStart >= connection_timeout
    /\ LET client == Head(todo) IN
       /\ clients' = RemoveAll(clients, {client})
       /\ buffer' = Without(buffer, {client})
       /\ client_timeouts' = Without(client_timeouts, {client})
       /\ sock' = [sock EXCEPT ![client] = "closed"]
       /\ log' = [log EXCEPT ![client] = "Error processing client data"]
    /\ todo' = Tail(todo)
    /\ pc' = NextPc(Tail(todo))
    /\ recvStart' = now
    /\ UNCHANGED <<started, running, listening, now, pending, net, peer, resp, call,
                   executed, escaped, dispatched, sent, events>>
    /\ UNCHANGED valVars

\* _check_client_timeouts, the last step of _process_server
CheckTimeouts ==
    /\ pc = "timeouts"
    /\ LET timeout_clients ==
               {c \in DOMAIN client_timeouts : TimedOut(now, client_timeouts[c])}
       IN
       /\ clients' = RemoveAll(clients, timeout_clients)
       /\ buffer' = Without(buffer, timeout_clients)
       /\ client_timeouts' = Without(client_timeouts, timeout_clients)
       /\ sock' = [c \in Conns |-> IF c \in timeout_clients THEN "closed" ELSE sock[c]]
       /\ log' = [c \in Conns |-> IF c \in timeout_clients THEN "timed out" ELSE log[c]]
    /\ pc' = "idle"
    /\ todo' = <<>>
    /\ recvStart' = 0
    /\ UNCHANGED <<started, running, listening, now, pending, net, peer, resp, call,
                   executed, escaped, dispatched, sent, events>>
    /\ UNCHANGED valVars

\* ---------------------------------------------------------- environment
\* Connection ids are handed out in order.
Fresh(c) == peer[c] = "unused" /\ \A x \in 1..(c - 1) : peer[x] # "unused"

\* The clock advances between ticks and while the gateway waits in recv.
TimePass ==
    /\ now < MaxTime
    /\ pc = "idle" \/ (Blocked /\ now - recvStart < connection_timeout)
    /\ DOMAIN client_timeouts # {} \/ \E c \in Conns : call[c].cpc = "reading"
    /\ now' = now + 1
    /\ UNCHANGED <<serverVars, tickVars, pending, net, sock, peer, resp, call,
                   histVars, sent, events>>
    /\ UNCHANGED valVars

\* A peer that does not use the client connects.
RawConnect(c) ==
    /\ pc = "idle"
    /\ listening
    /\ Fresh(c)
    /\ peer' = [peer EXCEPT ![c] = "raw"]
    /\ pending' = Append(pending, c)
    /\ UNCHANGED <<serverVars, tickVars, now, net, sock, resp, call, histVars, sent,
                   events>>
    /\ UNCHANGED valVars

\* It writes bytes.
RawSend(c, p) ==
    /\ pc = "idle" \/ (Blocked /\ Head(todo) = c)
    /\ peer[c] = "raw"
    /\ sock[c] # "closed"
    /\ Len(sent[c]) < MaxSends
    /\ net' = [net EXCEPT ![c] = @ \o p]
    /\ sent' = [sent EXCEPT ![c] = Append(@, p)]
    /\ events < MaxEvents
    /\ events' = events + 1
    /\ UNCHANGED <<serverVars, tickVars, now, pending, sock, peer, resp, call, histVars>>
    /\ UNCHANGED valVars

\* It closes its socket.
RawClose(c) ==
    /\ pc = "idle" \/ (Blocked /\ Head(todo) = c)
    /\ peer[c] = "raw"
    /\ peer' = [peer EXCEPT ![c] = "closed"]
    /\ events < MaxEvents
    /\ events' = events + 1
    /\ UNCHANGED <<serverVars, tickVars, now, pending, net, sock, resp, call,
                   histVars, sent>>
    /\ UNCHANGED valVars

\* ------------------------------------------- client: send_command_to_freecad
\* lines 194-199: open_connection, write the encoded command, drain.
\* open_connection succeeds as soon as the connection is in the backlog.
ClientCall(c, command) ==
    /\ pc = "idle"
    /\ Fresh(c)
    /\ IF listening
       THEN /\ peer' = [peer EXCEPT ![c] = "call"]
            /\ pending' = Append(pending, c)
            /\ net' = [net EXCEPT ![c] = Encode(command)]
            /\ sent' = [sent EXCEPT ![c] = <<Encode(command)>>]
            /\ call' = [call EXCEPT ![c] =
                          [cpc |-> "reading", got |-> 0, readStart |-> now,
                           result |-> NoResponse]]
       ELSE /\ peer' = [peer EXCEPT ![c] = "closed"]
            /\ call' = [call EXCEPT ![c] =
                          [cpc |-> "done", got |-> 0, readStart |-> 0,
                           result |-> TransportError("refused")]]
            /\ UNCHANGED <<pending, net, sent>>
    /\ Cardinality({x \in Conns : peer[x] # "unused"}) < MaxCalls
    /\ UNCHANGED events
    /\ UNCHANGED <<serverVars, tickVars, now, sock, resp, histVars>>
    /\ UNCHANGED valVars

\* lines 204-207: reader.read returned a chunk
ClientRecv(c) ==
    /\ pc = "idle" \/ Blocked
    /\ call[c].cpc = "reading"
    /\ call[c].got < Len(resp[c])
    /\ call' = [call EXCEPT ![c].got = Len(resp[c]), ![c].readStart = now]
    /\ UNCHANGED <<serverVars, tickVars, now, pending, net, sock, peer, resp,
                   histVars, sent, events>>
    /\ UNCHANGED valVars

\* lines 205-216: reader.read returned b'' (the gateway closed), the loop
\* ends and the accumulated bytes are decoded as one JSON text.
ClientEOF(c) ==
    /\ pc = "idle" \/ Blocked
    /\ call[c].cpc = "reading"
    /\ call[c].got = Len(resp[c])
    /\ sock[c] = "closed"
    /\ IF call[c].got = 1
       THEN /\ call' = [call EXCEPT ![c].cpc = "done", ![c].result = resp[c][1]]
            /\ peer' = [peer EXCEPT ![c] = "closed"]
       ELSE /\ call' = [call EXCEPT ![c].cpc = "done",
                                    ![c].result = TransportError("JSONDecodeError")]
            /\ UNCHANGED peer
    /\ UNCHANGED <<serverVars, tickVars, now, pending, net, sock, resp, histVars, sent, events>>
    /\ UNCHANGED valVars

\* lines 204, 218-219: wait_for(reader.read, timeout) expired
ClientTimeout(c) ==
    /\ pc = "idle" \/ Blocked
    /\ call[c].cpc = "reading"
    /\ call[c].got = Len(resp[c])
    /\ sock[c] # "closed"
    /\ now - call[c].readStart >= read_timeout
    /\ call' = [call EXCEPT ![c].cpc = "done",
                            ![c].result = TransportError("TimeoutError")]
    /\ UNCHANGED <<serverVars, tickVars, now, pending, net, sock, peer, resp,
                   histVars, sent, events>>
    /\ UNCHANGED valVars

\* lines 2345-2348: mcp.run() returns and the client process ends; the
\* operating system closes the sockets that calls which returned through
\* the except branch (lines 218-219, no writer.close()) left open.
ClientExit ==
    /\ pc = "idle" \/ Blocked
    /\ \A c \in Conns : call[c].cpc # "reading"
    /\ \E c \in Conns : peer[c] = "call"
    /\ peer' = [c \in Conns |-> IF peer[c] = "call" THEN "closed" ELSE peer[c]]
    /\ UNCHANGED <<serverVars, tickVars, now, pending, net, sock, resp, call,
                   histVars, sent, events>>
    /\ UNCHANGED valVars

\* ---------------------------------------------------------- specification
\* The gateway and peers that write bytes of their own.
Next ==
    \/ Start
    \/ Stop
    \/ TickAccept
    \/ ReadData
    \/ ReadClosed
    \/ ReadTimeout
    \/ CheckTimeouts
    \/ TimePass
    \/ \E c \in Conns : RawConnect(c)
    \/ \E c \in Conns, p \in RawPayloads : RawSend(c, p)
    \/ \E c \in Conns : RawClose(c)

Spec == Init /\ [][Next]_vars

\* _process_server is the callback of a QTimer that fires every 50 ms while
\* the gateway runs: a step of the tick that stays possible is taken, and
\* the clock goes on.
\* A recv on a socket that has data returns: the step of ReadData as it
\* shows on the tick's position (the escaping outcome, which ends the tick,
\* aside).
ReadStep ==
    /\ pc = "read"
    /\ net[Head(todo)] # <<>>
    /\ todo' = Tail(todo)
    /\ pc' = NextPc(Tail(todo))

FairTick ==
    /\ WF_vars(TickAccept)
    /\ WF_<<pc, todo>>(ReadStep)
    /\ WF_vars(ReadClosed)
    /\ WF_vars(ReadTimeout)
    /\ WF_vars(CheckTimeouts)
    /\ WF_vars(TimePass)

\* The gateway under fair ticking, with peers that write a command or a
\* stray byte.
FairPayloads ==
    {Encode([type |-> "execute_code", params |-> "P:ok"]),
     Encode([type |-> "execute_code", params |-> "P:acc"]), <<"x">>}

NextFair ==
    \/ Start
    \/ Stop
    \/ TickAccept
    \/ ReadData
    \/ ReadClosed
    \/ ReadTimeout
    \/ CheckTimeouts
    \/ TimePass
    \/ \E c \in Conns : RawConnect(c)
    \/ \E c \in Conns, p \in FairPayloads : RawSend(c, p)
    \/ \E c \in Conns : RawClose(c)

SpecFair == Init /\ [][NextFair]_vars /\ FairTick

\* The gateway composed with callers of send_command_to_freecad.
NextClient ==
    \/ Start
    \/ TickAccept
    \/ ReadData
    \/ ReadClosed
    \/ ReadTimeout
    \/ CheckTimeouts
    \/ TimePass
    \/ \E c \in Conns, command \in Commands : ClientCall(c, command)
    \/ \E c \in Conns : ClientRecv(c)
    \/ \E c \in Conns : ClientEOF(c)
    \/ \E c \in Conns : ClientTimeout(c)
    \/ ClientExit

SpecClient == Init /\ [][NextClient]_vars

\* The gateway and callers whose commands exercise the dispatch table.
NextDispatch ==
    \/ Start
    \/ TickAccept
    \/ ReadData
    \/ ReadClosed
    \/ ReadTimeout
    \/ CheckTimeouts
    \/ TimePass
    \/ \E c \in Conns, command \in DispatchCommands : ClientCall(c, command)
    \/ \E c \in Conns : ClientRecv(c)
    \/ \E c \in Conns : ClientEOF(c)
    \/ \E c \in Conns : ClientTimeout(c)
    \/ ClientExit

SpecDispatch == Init /\ [][NextDispatch]_vars

\* ------------------------------------------------------ the validators
\* The gateway's validate_code_safety is applied to the code.
Validate ==
    /\ verdict = <<>>
    /\ verdict' = << validate_parsed(parsed) >>
    /\ UNCHANGED <<gatewayVars, parsed, testVerdict, callVars>>

\* test_validation.py's validate_code_safety is applied to the code.
TestValidate ==
    /\ testVerdict = <<>>
    /\ testVerdict' = << test_validate_parsed(parsed) >>
    /\ UNCHANGED <<gatewayVars, parsed, verdict, callVars>>

NextValidator == Validate \/ TestValidate

SpecValidator == InitValidator /\ [][NextValidator]_vars

\* ------------------------------------------------- the codec, end to end
\* A tool function built the command mapping.
InitCodec ==
    /\ InitGateway
    /\ parsed = CodeTable["def ("]
    /\ verdict = <<>>
    /\ testVerdict = <<>>
    /\ arg \in CodecCommands
    /\ ret = <<>>
    /\ bridge = NoBridge
    /\ panel = NoPanel

\* client, lines 197-198: the bytes written for the command
ClientEncode ==
    /\ ret = <<>>
    /\ ret' = << command_bytes(arg) >>
    /\ UNCHANGED <<gatewayVars, parsed, verdict, testVerdict, arg, bridge, panel>>

\* gateway, lines 319, 371-372: the command it gets from these bytes
GatewayDecode ==
    /\ Len(ret) = 1
    /\ ret' = Append(ret, received_command(ret[1]))
    /\ UNCHANGED <<gatewayVars, parsed, verdict, testVerdict, arg, bridge, panel>>

NextCodec == ClientEncode \/ GatewayDecode

SpecCodec == InitCodec /\ [][NextCodec]_vars

\* ----------------------------------------- the client's macro functions
NormalizeArgs == {[fn |-> "normalize_macro_code", code |-> c, system |-> "", name |-> <<>>] :
                    c \in MacroCodes}

PathArgs == {[fn |-> "get_absolute_macro_path", code |-> <<>>, system |-> s, name |-> n] :
                s \in Systems, n \in MacroNames}

InitMacro ==
    /\ InitGateway
    /\ parsed = CodeTable["def ("]
    /\ verdict = <<>>
    /\ testVerdict = <<>>
    /\ arg \in NormalizeArgs \cup PathArgs
    /\ ret = <<>>
    /\ bridge = NoBridge
    /\ panel = NoPanel

NormalizeMacroCode ==
    /\ arg.fn = "normalize_macro_code"
    /\ ret = <<>>
    /\ ret' = << normalize_macro_code(arg.code) >>
    /\ UNCHANGED <<gatewayVars, parsed, verdict, testVerdict, arg, bridge, panel>>

\* The macro name is resolved; the name step applied to the name again is
\* kept next to the path.
GetAbsoluteMacroPath ==
    /\ arg.fn = "get_absolute_macro_path"
    /\ ret = <<>>
    /\ ret' = << get_absolute_macro_path(arg.system, arg.name),
                 EnsureExtension(EnsureExtension(arg.name)) >>
    /\ UNCHANGED <<gatewayVars, parsed, verdict, testVerdict, arg, bridge, panel>>

\* normalize_macro_code is given the text it returned.
NormalizeAgain ==
    /\ arg.fn = "normalize_macro_code"
    /\ Len(ret) = 1
    /\ ret' = Append(ret, normalize_macro_code(ret[1]))
    /\ UNCHANGED <<gatewayVars, parsed, verdict, testVerdict, arg, bridge, panel>>

NextMacro == NormalizeMacroCode \/ NormalizeAgain \/ GetAbsoluteMacroPath

SpecMacro == InitMacro /\ [][NextMacro]_vars

\* -------------------------------------------- specification: load_config
InitConfig ==
    /\ InitGateway
    /\ parsed = CodeTable["def ("]
    /\ verdict = <<>>
    /\ testVerdict = <<>>
    /\ arg \in ConfigFiles
    /\ ret = <<>>
    /\ bridge = NoBridge
    /\ panel = NoPanel

LoadConfig ==
    /\ ret = <<>>
    /\ ret' = << load_config(arg) >>
    /\ UNCHANGED <<gatewayVars, parsed, verdict, testVerdict, arg, bridge, panel>>

NextConfig == LoadConfig

SpecConfig == InitConfig /\ [][NextConfig]_vars

\* ---------------------------------- specification: run_macro and validate
InitRunMacro ==
    /\ InitGateway
    /\ parsed = CodeTable["def ("]
    /\ verdict = <<>>
    /\ testVerdict = <<>>
    /\ arg \in RunMacroArgs \cup ValidateMacroArgs
    /\ ret = <<>>
    /\ bridge = NoBridge
    /\ panel = NoPanel

ExecuteMacroFile ==
    /\ ret = <<>>
    /\ arg.fn = "run_macro"
    /\ ret' = << execute_macro_file(arg.file, arg.params) >>
    /\ UNCHANGED <<gatewayVars, parsed, verdict, testVerdict, arg, bridge, panel>>

ValidateMacroCode ==
    /\ ret = <<>>
    /\ arg.fn = "validate_macro_code"
    /\ ret' = << handle_validate_macro_code(arg.file, arg.code) >>
    /\ UNCHANGED <<gatewayVars, parsed, verdict, testVerdict, arg, bridge, panel>>

NextRunMacro == ExecuteMacroFile \/ ValidateMacroCode

SpecRunMacro == InitRunMacro /\ [][NextRunMacro]_vars

\* ------------------------------------ specification: a tool of the client
\* One call of a tool against a peer that writes what it likes when it
\* likes and closes or not.
InitBridge ==
    /\ InitGateway
    /\ parsed = CodeTable["def ("]
    /\ verdict = <<>>
    /\ testVerdict = <<>>
    /\ arg \in BridgeArgs
    /\ ret = <<>>
    /\ bridge = NoBridge
    /\ panel = NoPanel

bridgeRest == <<gatewayVars, parsed, verdict, testVerdict, arg, panel>>

\* lines 247-254 and 194-201: the tool starts; under a running loop the
\* worker is submitted and future.result waits; the worker connects,
\* writes the command and begins to read.
ToolCall ==
    /\ bridge.tpc = "none"
    /\ bridge' = [bridge EXCEPT
                    !.tpc = "called",
                    !.start = now,
                    !.fut = IF arg.loop THEN "waiting" ELSE "none",
                    !.wpc = IF arg.listening THEN "reading" ELSE "done",
                    !.readStart = now,
                    !.wres = IF arg.listening THEN NoResponse
                             ELSE TransportError("ConnectionRefusedError"),
                    !.left = arg.text]
    /\ UNCHANGED <<bridgeRest, ret>>

\* The peer writes the next n bytes of its text.
PeerWrite(n) ==
    /\ bridge.wpc = "reading"
    /\ ~bridge.closed
    /\ n <= Len(bridge.left)
    /\ bridge' = [bridge EXCEPT
                    !.wire = bridge.wire \o SubSeq(bridge.left, 1, n),
                    !.left = SubSeq(bridge.left, n + 1, Len(bridge.left))]
    /\ UNCHANGED <<bridgeRest, ret>>

\* The peer closes the connection.
PeerClose ==
    /\ bridge.wpc = "reading"
    /\ ~bridge.closed
    /\ bridge' = [bridge EXCEPT !.closed = TRUE]
    /\ UNCHANGED <<bridgeRest, ret>>

\* lines 204-209: reader.read returned a chunk.
WorkerRead ==
    /\ bridge.wpc = "reading"
    /\ bridge.wire # <<>>
    /\ LET response_data == bridge.data \o Chunk(bridge.wire)
           rest == SubSeq(bridge.wire, Len(Chunk(bridge.wire)) + 1, Len(bridge.wire))
       IN bridge' = IF ResponseTooLarge(response_data)
                    THEN [bridge EXCEPT !.data = response_data, !.wire = rest,
                                        !.wpc = "done",
                                        !.wres = TransportError("Response too large")]
                    ELSE [bridge EXCEPT !.data = response_data, !.wire = rest,
                                        !.readStart = now]
    /\ UNCHANGED <<bridgeRest, ret>>

\* lines 205-216: reader.read returned b'', the loop ends and the bytes are
\* decoded.
WorkerEOF ==
    /\ bridge.wpc = "reading"
    /\ bridge.wire = <<>>
    /\ bridge.closed
    /\ bridge' = [bridge EXCEPT !.wpc = "done",
                                !.wres = DecodeResponse(bridge.data)]
    /\ UNCHANGED <<bridgeRest, ret>>

ReadExpired ==
    /\ bridge.wpc = "reading"
    /\ bridge.wire = <<>>
    /\ ~bridge.closed
    /\ now - bridge.readStart >= read_timeout

\* lines 204, 218-219: wait_for(reader.read, timeout=30) expired.
WorkerTimeout ==
    /\ ReadExpired
    /\ bridge' = [bridge EXCEPT !.wpc = "done",
                                !.wres = TransportError("TimeoutError")]
    /\ UNCHANGED <<bridgeRest, ret>>

FutureExpired ==
    /\ bridge.fut = "waiting"
    /\ bridge.wpc = "reading"
    /\ now - bridge.start >= ToolTimeout(arg.fn)

\* line 254: future.result(timeout) raises TimeoutError; the worker goes on
\* and the `with` block waits for it in executor.shutdown(wait=True).
FutureTimeout ==
    /\ FutureExpired
    /\ bridge' = [bridge EXCEPT !.fut = "timed out"]
    /\ UNCHANGED <<bridgeRest, ret>>

\* lines 254-262: the tool returns: the worker's result, or under a running
\* loop after the timeout of future.result what `except Exception` makes of
\* the TimeoutError.
ToolReturn ==
    /\ bridge.tpc = "called"
    /\ bridge.wpc = "done"
    /\ bridge' = [bridge EXCEPT !.tpc = "returned", !.end = now]
    /\ ret' = << IF bridge.fut = "timed out" THEN ToolError ELSE bridge.wres >>
    /\ UNCHANGED bridgeRest

\* The clock advances while the worker waits for bytes.
BridgeTick ==
    /\ now < BridgeTime
    /\ bridge.wpc = "reading"
    /\ bridge.wire = <<>>
    /\ ~bridge.closed
    /\ ~ReadExpired
    /\ ~FutureExpired
    /\ now' = now + 1
    /\ UNCHANGED <<serverVars, tickVars, histVars, envVars, sock, resp, call,
                   valVars>>

NextBridge ==
    \/ ToolCall
    \/ \E n \in 1..(response_limit + chunk_size) : PeerWrite(n)
    \/ PeerClose
    \/ WorkerRead
    \/ WorkerEOF
    \/ WorkerTimeout
    \/ FutureTimeout
    \/ ToolReturn
    \/ BridgeTick

SpecBridge == InitBridge /\ [][NextBridge]_vars

\* ------------------------- specification: execute_code, standard output
InitCapture ==
    /\ InitGateway
    /\ parsed = CodeTable["def ("]
    /\ verdict = <<>>
    /\ testVerdict = <<>>
    /\ arg \in CaptureArgs
    /\ ret = <<>>
    /\ bridge = NoBridge
    /\ panel = NoPanel

ExecuteCaptured ==
    /\ ret = <<>>
    /\ ret' = << execute_captured(arg.program, arg.validate, arg.stdout) >>
    /\ UNCHANGED <<gatewayVars, parsed, verdict, testVerdict, arg, bridge, panel>>

NextCapture == ExecuteCaptured

SpecCapture == InitCapture /\ [][NextCapture]_vars

\* --------------------------------- specification: run_macro, documents
InitRunDoc ==
    /\ InitGateway
    /\ parsed = CodeTable["def ("]
    /\ verdict = <<>>
    /\ testVerdict = <<>>
    /\ arg \in {a \in RunDocArgs :
                  IF a.docs = {} THEN a.active = "" ELSE a.active \in a.docs}
    /\ ret = <<>>
    /\ bridge = NoBridge
    /\ panel = NoPanel

HandleRunMacro ==
    /\ ret = <<>>
    /\ ret' = << handle_run_macro(App(arg.docs, arg.active), arg.doc_name, arg.program) >>
    /\ UNCHANGED <<gatewayVars, parsed, verdict, testVerdict, arg, bridge, panel>>

NextRunDoc == HandleRunMacro

SpecRunDoc == InitRunDoc /\ [][NextRunDoc]_vars

\* ---------------------------------------- specification: the control panel
\* FreeCADMCPServer.start() of a new server object: whether it is running
\* afterwards (without the GUI it returns at once; when bind raises it calls
\* stop()).
StartSucceeds(gui_up, port_in_use) == gui_up /\ ~port_in_use

InitPanel ==
    /\ InitGateway
    /\ parsed = CodeTable["def ("]
    /\ verdict = <<>>
    /\ testVerdict = <<>>
    /\ arg = <<>>
    /\ ret = <<>>
    /\ bridge = NoBridge
    /\ panel \in {[NoPanel EXCEPT !.gui_up = g, !.port_in_use = u] :
                    g \in BOOLEAN, u \in BOOLEAN}

panelRest == <<gatewayVars, parsed, verdict, testVerdict, arg, ret, bridge>>

\* FreeCADMCPPanel.start_server: the Start button was pressed.
PressStart ==
    /\ panel.start_button
    /\ panel.presses < MaxPresses
    /\ panel' =
         IF panel.server = "none"
         THEN IF StartSucceeds(panel.gui_up, panel.port_in_use)
              THEN [panel EXCEPT !.server = "running",
                                 !.start_button = FALSE,
                                 !.stop_button = TRUE,
                                 !.report_browser =
                                     Append(panel.report_browser, "Server started"),
                                 !.attempts = panel.attempts + 1,
                                 !.presses = panel.presses + 1]
              ELSE [panel EXCEPT !.server = "not running",
                                 !.attempts = panel.attempts + 1,
                                 !.presses = panel.presses + 1]
         ELSE [panel EXCEPT !.presses = panel.presses + 1]
    /\ UNCHANGED panelRest

\* FreeCADMCPPanel.stop_server: the Stop button was pressed.
PressStop ==
    /\ panel.stop_button
    /\ panel' = IF panel.server # "none"
                THEN [panel EXCEPT !.server = "none",
                                   !.start_button = TRUE,
                                   !.stop_button = FALSE,
                                   !.report_browser =
                                       Append(panel.report_browser, "Server stopped")]
                ELSE panel
    /\ UNCHANGED panelRest

\* FreeCADMCPPanel.clear_logs: the Clear Logs button was pressed.
PressClear ==
    /\ panel.report_browser # <<>>
    /\ panel' = [panel EXCEPT !.report_browser = <<>>]
    /\ UNCHANGED panelRest

\* Another process takes the port or gives it up.
PortChanges ==
    /\ panel.server # "running"
    /\ panel' = [panel EXCEPT !.port_in_use = ~panel.port_in_use]
    /\ UNCHANGED panelRest

\* The application finishes bringing up its GUI.
GuiComesUp ==
    /\ ~panel.gui_up
    /\ panel' = [panel EXCEPT !.gui_up = TRUE]
    /\ UNCHANGED panelRest

NextPanel == PressStart \/ PressStop \/ PressClear \/ PortChanges \/ GuiComesUp

SpecPanel == InitPanel /\ [][NextPanel]_vars

\* ------------------------------------------------------------- properties
Registered(c) == \E i \in 1..Len(clients) : clients[i] = c

\* c is in none of the clients list, the buffer map and the timestamp map,
\* and its socket is closed.
TornDown(c) ==
    /\ ~Registered(c)
    /\ c \notin DOMAIN buffer
    /\ c \notin DOMAIN client_timeouts
    /\ sock[c] = "closed"

\* The step is a recv on connection c that returned data.
ReadsFrom(c) ==
    /\ pc = "read"
    /\ Head(todo) = c
    /\ Len(net'[c]) < Len(net[c])

\* C4: the number of active connections never exceeds max_clients, and a
\* connection accepted while the active count is at or above max_clients is
\* closed without entering the clients list, the buffer map or the
\* timestamp map.
C4_ConnectionLimit ==
    /\ [](Len(clients) <= max_clients)
    /\ [](\A c \in Conns : log[c] = "rejected" =>
            (sock[c] = "closed" /\ ~Registered(c) /\ c \notin DOMAIN buffer))
    /\ [][(pc = "idle" /\ pc' # "idle" /\ pending # <<>>
           /\ Len(clients) >= max_clients)
          => (sock'[Head(pending)] = "closed"
              /\ clients' = clients
              /\ DOMAIN buffer' = DOMAIN buffer
              /\ DOMAIN client_timeouts' = DOMAIN client_timeouts)]_vars

C4_Witness ==
    \E c \in Conns : log[c] = "rejected" /\ Len(clients) = max_clients

\* C5: a read that makes a connection's buffer longer than max_buffer_size
\* tears the connection down in that step and dispatches nothing; every
\* registered connection's buffer holds at most max_buffer_size bytes.
C5_BufferBound ==
    /\ [](\A c \in DOMAIN buffer : Len(buffer[c]) <= max_buffer_size)
    /\ [][\A c \in Conns :
            (ReadsFrom(c)
             /\ Len(buffer[c]) + Len(net[c]) - Len(net'[c]) > max_buffer_size)
            => (/\ ~(\E i \in 1..Len(clients') : clients'[i] = c)
                /\ c \notin DOMAIN buffer'
                /\ c \notin DOMAIN client_timeouts'
                /\ sock'[c] = "closed"
                /\ dispatched'[c] = dispatched[c]
                /\ resp'[c] = resp[c])]_vars

C5_Witness ==
    \E c \in Conns : log[c] = "Client data too large" /\ TornDown(c)

\* ---- helpers of the properties below
RegisteredNext(c) == \E i \in 1..Len(clients') : clients'[i] = c

\* The bytes the recv of this step returned.
DataRead(c) == SubSeq(net[c], 1, Len(net[c]) - Len(net'[c]))

IsPrefix(a, b) == Len(a) <= Len(b) /\ a = SubSeq(b, 1, Len(a))

\* The JSON values among the payloads a peer wrote, in the order written.
RECURSIVE SentValues(_)
SentValues(ps) ==
    IF ps = <<>> THEN <<>>
    ELSE (IF Decode(Head(ps)).status = "ok" THEN <<Decode(Head(ps))>> ELSE <<>>)
         \o SentValues(Tail(ps))

\* The encodings of all command mappings of the model.
CommandTexts ==
    {Encode([type |-> t, params |-> q]) :
        t \in {"execute_code", "get_report", "frobnicate", "None"},
        q \in DOMAIN ParamsTable \cup {"absent"}}

ProperPrefixOfCommand(b) ==
    b # <<>> /\ \E m \in CommandTexts : Len(b) < Len(m) /\ IsPrefix(b, m)

\* Some continuation of b is a JSON text: b is whitespace, or whitespace
\* and the beginning of one value, or one whole value and whitespace.
Completable(b) ==
    LET t == StripLeft(b) IN
    \/ t = <<>>
    \/ Len(t) = 1 /\ t[1] \in HeadSegs
    \/ Len(t) = 2 /\ t[1] \in HeadSegs /\ t[2] = AccHead
    \/ json_loads(t).status = "ok"

\* The code an execute_code command carries ("None" when it carries none).
CodeOf(command) ==
    IF command.kind = "dict" /\ command.type = "execute_code"
       /\ command.params # "absent" /\ ParamsTable[command.params].kind = "dict"
    THEN ParamsTable[command.params].code ELSE "None"

\* C1: code that validate_code_safety judges unsafe is never given to exec,
\* whatever the request's params, and the request is answered with an error
\* Response that carries the violations.
C1_UnsafeNeverExecuted ==
    /\ \A code \in executed : validate_code_safety(code).is_safe
    /\ \A c \in Conns : \A i \in 1..Len(resp[c]) :
          LET code == CodeOf(dispatched[c][i]) IN
          (code # "None" /\ ~validate_code_safety(code).is_safe)
          => (resp[c][i].result = "error"
              /\ resp[c][i].detail = validate_code_safety(code).errors)

\* C2: every message that decodes as JSON is answered with exactly one
\* Response whose result is success or error, an error carrying a message.
C2_OneResponsePerMessage ==
    \A c \in Conns :
        /\ Len(resp[c]) = Len(dispatched[c])
        /\ \A i \in 1..Len(resp[c]) :
              /\ resp[c][i].result \in {"success", "error"}
              /\ resp[c][i].result = "error" => resp[c][i].message # ""

\* C3: a call of send_command_to_freecad whose Response the gateway wrote
\* and the client received returns that Response, also when the gateway
\* keeps the connection open.
C3_CallReturnsResponse ==
    \A c \in Conns :
        (call[c].cpc = "done" /\ call[c].got >= 1) => call[c].result = resp[c][1]

\* C6: the idle check removes exactly the connections whose last read of
\* data (or accept) is more than connection_timeout ago, whatever their
\* buffer holds, and every read that returns data restarts the idle clock.
C6_IdleTimeout ==
    /\ [][(pc = "timeouts" /\ pc' = "idle")
          => \A c \in DOMAIN client_timeouts :
                /\ (now - client_timeouts[c] > connection_timeout)
                      => (~RegisteredNext(c) /\ c \notin DOMAIN buffer'
                          /\ c \notin DOMAIN client_timeouts'
                          /\ sock'[c] = "closed")
                /\ (now - client_timeouts[c] <= connection_timeout)
                      => (c \in DOMAIN client_timeouts'
                          /\ (Registered(c) => RegisteredNext(c)))]_vars
    /\ [][\A c \in Conns :
            (ReadsFrom(c) /\ RegisteredNext(c)) => client_timeouts'[c] = now]_vars

C6_Witness ==
    /\ pc = "timeouts"
    /\ \E c \in DOMAIN buffer :
          buffer[c] # <<>> /\ now - client_timeouts[c] > connection_timeout
    /\ \E c \in DOMAIN buffer :
          buffer[c] = <<>> /\ now - client_timeouts[c] > connection_timeout

\* C7: while the bytes read so far are a proper prefix of a command message
\* the connection stays registered and its buffer is their concatenation
\* and nothing is dispatched; the read that completes the message
\* dispatches it once.
C7_SplitDelivery ==
    [][\A c \in Conns :
         ReadsFrom(c) =>
            LET buf == buffer[c] \o DataRead(c) IN
            /\ ProperPrefixOfCommand(buf)
                  => (RegisteredNext(c) /\ buffer'[c] = buf
                      /\ dispatched'[c] = dispatched[c])
            /\ (buf \in CommandTexts /\ Len(buf) <= max_buffer_size)
                  => dispatched'[c] = Append(dispatched[c], Decode(buf))]_vars

\* C8: a registered connection's buffer never keeps bytes that no further
\* bytes can complete into a JSON text.
C8_MalformedNotKept ==
    \A c \in DOMAIN buffer : Registered(c) => Completable(buffer[c])

\* C9: on one connection the commands are dispatched in the order in which
\* they were sent, and the i-th Response written answers the i-th command
\* dispatched.
C9_PerConnectionOrder ==
    \A c \in Conns :
        /\ IsPrefix(dispatched[c], SentValues(sent[c]))
        /\ Len(resp[c]) <= Len(dispatched[c])
        /\ \A i \in 1..Len(resp[c]) :
              resp[c][i] = execute_command(dispatched[c][i]).response

C9_Witness ==
    \E c \in Conns :
        /\ Len(resp[c]) = 2
        /\ dispatched[c][1] # dispatched[c][2]
        /\ dispatched[c] = SentValues(sent[c])

\* C10: the step that answers a command leaves the connection registered,
\* its socket open and its buffer empty; the answer to a later command on
\* the connection is the dispatcher's answer to that command, as for the
\* first.
C10_ConnectionKeptOpen ==
    /\ [][\A c \in Conns :
            (ReadsFrom(c) /\ Len(resp'[c]) > Len(resp[c]))
            => (RegisteredNext(c) /\ c \in DOMAIN buffer' /\ buffer'[c] = <<>>
                /\ c \in DOMAIN client_timeouts' /\ sock'[c] = "open")]_vars
    /\ [](\A c \in Conns : \A i \in 1..Len(resp[c]) :
            resp[c][i] = execute_command(SentValues(sent[c])[i]).response)

C10_Witness ==
    \E c \in Conns :
        Len(resp[c]) = 2 /\ Registered(c) /\ buffer[c] = <<>> /\ sock[c] = "open"

\* C11: a read attempt on a registered connection that finds no data (the
\* peer has written nothing more and has not closed) ends with the
\* connection still registered, its buffer and timestamp unchanged and its
\* socket open, and the tick goes on to the next connection.
C11_WouldBlockDefers ==
    [][\A c \in Conns :
         (pc = "read" /\ Head(todo) = c /\ net[c] = <<>> /\ peer[c] # "closed"
          /\ todo' # todo)
         => (/\ RegisteredNext(c)
             /\ c \in DOMAIN buffer' /\ buffer'[c] = buffer[c]
             /\ c \in DOMAIN client_timeouts'
             /\ client_timeouts'[c] = client_timeouts[c]
             /\ sock'[c] = "open"
             /\ todo' = Tail(todo))]_vars

\* The type tags execute_command has a branch for (those of the model).
DispatchTable == {"execute_code", "get_report", "list_documents"}

\* C12: the read that dispatches a command mapping whose type tag is not in
\* the dispatch table (or is missing) appends an error Response naming the
\* tag to the connection's responses; no exception leaves the dispatcher,
\* the connection stays registered and open, and the running flag and every
\* other connection's registration, buffer, timestamp, socket and responses
\* are unchanged.
C12_UnknownCommand ==
    [][\A c \in Conns :
         (ReadsFrom(c) /\ Len(dispatched'[c]) > Len(dispatched[c]))
         => LET command == dispatched'[c][Len(dispatched'[c])] IN
            (command.kind = "dict" /\ command.type \notin DispatchTable)
            => /\ resp'[c] = Append(resp[c],
                     Response("error", "Unknown command",
                              << <<"Unknown command", <<command.type>>>> >>, FALSE))
               /\ ~escaped' /\ pc' # "dead"
               /\ RegisteredNext(c) /\ sock'[c] = "open"
               /\ log'[c] = log[c]
               /\ running' = running /\ listening' = listening
               /\ \A x \in Conns \ {c} :
                    /\ resp'[x] = resp[x] /\ sock'[x] = sock[x]
                    /\ Registered(x)
                       => (RegisteredNext(x) /\ buffer'[x] = buffer[x]
                           /\ client_timeouts'[x] = client_timeouts[x])]_vars

C12_Witness ==
    \E c \in Conns, x \in Conns :
        /\ c # x /\ Registered(c) /\ Registered(x) /\ running
        /\ pc = "read" /\ Head(todo) = x
        /\ Len(resp[c]) = 1 /\ resp[c][1].message = "Unknown command"
        /\ dispatched[c][1].type = "None"
        /\ resp[x] = <<>>

\* Dispatching the command raises an instance of Exception: in the handler
\* (the code it runs), or in execute_command before the handler is entered.
DispatchRaises(command) ==
    LET r == execute_command(command) IN
    \/ r.raised /\ ~r.base
    \/ r.execd # "None" /\ CodeRaises(r.execd) = "Exception"

\* C13: every dispatched command with a recognized type tag whose dispatch
\* raises an exception is answered on its connection with an error Response
\* that carries a message and a traceback, and the connection is not torn
\* down for it.
C13_ExceptionsWrapped ==
    \A c \in Conns : \A i \in 1..Len(dispatched[c]) :
        LET command == dispatched[c][i] IN
        (command.kind = "dict" /\ command.type \in DispatchTable
         /\ DispatchRaises(command))
        => /\ i <= Len(resp[c])
           /\ resp[c][i].result = "error"
           /\ resp[c][i].message # ""
           /\ resp[c][i].traceback
           /\ log[c] # "Error processing client data"

\* C14: every execute_code request whose code passed validation and fails
\* when run, whatever the class of what it raises, is answered with an error
\* Response carrying a message and a traceback; no exception leaves the
\* tick callback and the tick loop goes on.
C14_RuntimeFailureContained ==
    /\ ~escaped
    /\ pc # "dead"
    /\ \A c \in Conns : \A i \in 1..Len(dispatched[c]) :
          LET code == CodeOf(dispatched[c][i]) IN
          (code # "None" /\ validate_code_safety(code).is_safe
           /\ CodeRaises(code) # "none")
          => /\ i <= Len(resp[c])
             /\ resp[c][i].result = "error"
             /\ resp[c][i].message # ""
             /\ resp[c][i].traceback

\* C15: when the same unsafe code was submitted by two execute_code
\* requests, it was executed by neither and both were answered with the
\* same violations, those validate_code_safety returns for the code.
C15_RejectionIdempotent ==
    \A c1 \in Conns, c2 \in Conns :
      \A i \in 1..Len(dispatched[c1]), j \in 1..Len(dispatched[c2]) :
        LET code == CodeOf(dispatched[c1][i]) IN
        (/\ <<c1, i>> # <<c2, j>>
         /\ code # "None"
         /\ CodeOf(dispatched[c2][j]) = code
         /\ ~validate_code_safety(code).is_safe)
        => /\ code \notin executed
           /\ i <= Len(resp[c1]) /\ j <= Len(resp[c2])
           /\ resp[c1][i].result = "error" /\ resp[c2][j].result = "error"
           /\ resp[c1][i].detail = validate_code_safety(code).errors
           /\ resp[c2][j].detail = resp[c1][i].detail

\* ---- the validators' claims
\* All nodes of a syntax tree.
RECURSIVE NodesOf(_)
NodesOf(n) == {n} \cup UNION {NodesOf(n.children[i]) : i \in 1..Len(n.children)}

\* The dotted module names the node imports or imports from.
ImportedBy(n) ==
    CASE n.node = "Import" -> {n.names[i] : i \in 1..Len(n.names)}
      [] n.node = "ImportFrom" -> {n.names[i] : i \in 1..Len(n.names)}
      [] OTHER -> {}

DisallowedImport(n) == \E m \in ImportedBy(n) : m[1] \notin ALLOWED_MODULES
DeniedName(n) == n.node = "Name" /\ n.id \in DANGEROUS_BUILTINS
DeniedAttribute(n) == n.node = "Attribute" /\ n.id \in DANGEROUS_ATTRIBUTES
Violating(n) == DisallowedImport(n) \/ DeniedName(n) \/ DeniedAttribute(n)

\* The number of nodes above the deepest violating node of the tree
\* (-1: it has none).
RECURSIVE ViolationDepth(_)
ViolationDepth(n) ==
    LET below == {ViolationDepth(n.children[i]) : i \in 1..Len(n.children)} \ {-1}
    IN IF below # {} THEN 1 + CHOOSE d \in below : \A e \in below : e <= d
       ELSE IF Violating(n) THEN 0 ELSE -1

Validated == verdict # <<>> /\ ~parsed.syntax

\* C16: when the code has an import or from-import of a module whose first
\* dotted part is not in ALLOWED_MODULES, anywhere in its tree, the verdict
\* is unsafe and one of the violations names that module.
C16_DisallowedImports ==
    Validated =>
        \A n \in NodesOf(parsed.tree) : \A m \in ImportedBy(n) :
            m[1] \notin ALLOWED_MODULES
            => /\ ~verdict[1].is_safe
               /\ \E k \in 1..Len(verdict[1].errors) :
                     /\ verdict[1].errors[k][2] = m
                     /\ verdict[1].errors[k][1] =
                          (IF n.node = "Import" THEN "Importing module"
                           ELSE "Importing from module")

C16_Witness ==
    /\ Validated
    /\ ~verdict[1].is_safe
    /\ \E n \in NodesOf(parsed.tree) :
          /\ n.node = "Import" /\ Len(n.names) = 2
          /\ n.names[2] = <<"os", "math">>
    /\ parsed.tree.children[1].node = "ClassDef"

\* C17: when a denied identifier is the id of a Name node of the code (read,
\* assigned or deleted), or of the Name that is the callee of a call, the
\* verdict is unsafe.
C17_DeniedIdentifiers ==
    Validated =>
        \A n \in NodesOf(parsed.tree) :
            (\/ DeniedName(n)
             \/ (n.node = "Call" /\ DeniedName(n.children[1])))
            => ~verdict[1].is_safe

C17_Witness ==
    /\ Validated
    /\ ~verdict[1].is_safe
    /\ \E n \in NodesOf(parsed.tree) : n.node = "Delete" /\ DeniedName(n.children[1])

\* C18: code that parses and has no disallowed import, no denied identifier
\* and no denied attribute name gets the verdict (True, no violations); and
\* every verdict is safe exactly when it has no violations.
C18_SafeCodeAccepted ==
    verdict # <<>> =>
        /\ (~parsed.syntax /\ \A n \in NodesOf(parsed.tree) : ~Violating(n))
              => verdict[1] = [is_safe |-> TRUE, errors |-> <<>>]
        /\ verdict[1].is_safe <=> (verdict[1].errors = <<>>)

C18_Witness ==
    /\ Validated
    /\ verdict[1] = [is_safe |-> TRUE, errors |-> <<>>]
    /\ \E n \in NodesOf(parsed.tree) : n.node = "Attribute" /\ n.id = "y"
    /\ \E n \in NodesOf(parsed.tree) : n.node = "Call"

\* C19: a disallowed import, a denied identifier or a denied attribute at
\* any depth of the tree makes the verdict unsafe.
C19_ExhaustiveWalk ==
    Validated =>
        ((\E n \in NodesOf(parsed.tree) : Violating(n)) => ~verdict[1].is_safe)

C19_Witness ==
    /\ Validated
    /\ ~verdict[1].is_safe
    /\ ViolationDepth(parsed.tree) >= MaxDepth + MaxBlocks + 2
    /\ \E n \in NodesOf(parsed.tree) : n.node = "Lambda"

\* C20: the gateway's validator and the validator of the validation test
\* give every code string the same verdict.
C20_SinglePolicy ==
    (verdict # <<>> /\ testVerdict # <<>>)
    => verdict[1].is_safe = testVerdict[1].is_safe

\* --------------------------------------------------- the order of a tick
NoDuplicates(q) == \A i, j \in 1..Len(q) : q[i] = q[j] => i = j

\* The step is a recv on connection c that returned (data, b'' or an error).
ReadOf(c) == pc = "read" /\ Head(todo) = c /\ todo' # todo

\* C29: a tick starts with one accept attempt, which registers at most one
\* connection; it then reads the registered connections in registration
\* order, one recv and at most one dispatched command for each; the
\* idle-timeout check runs after the last of them; and while the server is
\* stopped no tick changes anything.
C29_TickOrder ==
    /\ [][/\ Len(clients') <= Len(clients) + 1
          /\ Len(clients') > Len(clients) => (pc = "idle" /\ pc' # "idle")
          /\ (pc = "idle" /\ pc' # "idle") => todo' = clients'
          /\ \A c \in Conns :
                /\ Len(dispatched'[c]) <= Len(dispatched[c]) + 1
                /\ (dispatched'[c] # dispatched[c] \/ resp'[c] # resp[c]
                    \/ (c \in DOMAIN buffer /\ c \in DOMAIN buffer'
                        /\ buffer'[c] # buffer[c]))
                   => ReadOf(c)
                /\ ReadOf(c) => (todo' = Tail(todo) \/ todo' = <<>>)
                /\ (log'[c] = "timed out" /\ log[c] # "timed out")
                   => (pc = "timeouts" /\ todo = <<>>)
          /\ (~running /\ ~running')
             => UNCHANGED <<clients, buffer, client_timeouts, pc, todo, sock,
                            resp, dispatched, executed>>]_vars
    /\ [](/\ NoDuplicates(todo)
          /\ NoDuplicates(clients)
          /\ pc = "timeouts" => todo = <<>>
          /\ pc = "read" => todo # <<>>)

C29_Witness ==
    /\ pc = "timeouts"
    /\ Len(clients) = 2
    /\ \A i \in 1..2 : dispatched[clients[i]] # <<>>

\* ----------------------------------------------------- the peer's close
\* C30: when recv returns b'' the connection leaves the clients list, the
\* buffer map and the timestamp map and its socket is closed, in that step
\* of the tick; what its buffer held is not dispatched and gets no response.
C30_ZeroByteRead ==
    [][\A c \in Conns :
          (ReadOf(c) /\ net[c] = <<>> /\ peer[c] = "closed")
          => /\ ~RegisteredNext(c)
             /\ c \notin DOMAIN buffer'
             /\ c \notin DOMAIN client_timeouts'
             /\ sock'[c] = "closed"
             /\ dispatched'[c] = dispatched[c]
             /\ resp'[c] = resp[c]
             /\ executed' = executed]_vars

C30_Witness ==
    \E c \in Conns :
        /\ log[c] = "Client disconnected"
        /\ sent[c] # <<>>
        /\ dispatched[c] = <<>>
        /\ sock[c] = "closed"
        /\ c \notin DOMAIN buffer

\* ---------------------------------------------------------- round trip
\* C21: the command the gateway decodes from the bytes the client wrote for
\* a command has the command's type tag and a parameter mapping equal to
\* the command's.
C21_RoundTrip ==
    Len(ret) = 2 =>
        /\ ret[2].status = "ok"
        /\ ret[2].type = DictGet(arg, KeyType)
        /\ ret[2].params = DictGet(arg, KeyParams)

C21_Witness ==
    /\ Len(ret) = 2
    /\ ret[2].status = "ok"
    /\ ret[2].type = Str(<<E_ACUTE>>)
    /\ \E k \in Keys :
          ret[2].params =
              Dict(<< << <<"x">>, Num >>,
                      <<k, List(<<Str(<<BACKSLASH, E_ACUTE>>), Str(<<"a">>)>>)>> >>)
    /\ \E i \in 1..(Len(ret[1]) - 1) : ret[1][i] = "C3" /\ ret[1][i + 1] = "A9"

\* ------------------------------------------------- the client's macros
\* The line is an import statement of the module (its name in pieces).
ImportsModule(line, module) ==
    LET l == StripLeft(line)
        n == 2 + Len(module)
    IN /\ Len(l) >= n
       /\ SubSeq(l, 1, n) = <<"import", " ">> \o module
       /\ (Len(l) = n \/ l[n + 1] = " ")

RequiredModules == {<<"FreeCAD">>, <<"FreeCAD", "Gui">>, <<"Part">>, <<"math">>}

\* The import line normalize_macro_code writes for the module.
StandardImport(module) ==
    CASE module = <<"FreeCAD">> -> ImportFreeCAD \o <<" ", "as", " ", "App">>
      [] module = <<"FreeCAD", "Gui">> -> ImportFreeCADGui \o <<" ", "as", " ", "Gui">>
      [] module = <<"Part">> -> ImportPart
      [] OTHER -> ImportMath

\* C25: for code that is not blank the text returned ends with the lines of
\* the code, in order; it has an import line for each of FreeCAD,
\* FreeCADGui, Part and math; the lines put in front of the code are the
\* standard imports of exactly the modules the code has no import of; and
\* for blank code the text is the header line alone.
C25_NormalizedImports ==
    (ret # <<>> /\ arg.fn = "normalize_macro_code") =>
        LET lines == strip_splitlines(arg.code)
            out == ret[1]
            front == SubSeq(out, 1, Len(out) - Len(lines))
            Has(ls, m) == \E i \in 1..Len(ls) : ImportsModule(ls[i], m)
        IN IF lines = <<>>
           THEN out = << <<"#", " ", "FreeCAD", " ", "Macro">>, <<>> >>
           ELSE /\ Len(out) >= Len(lines)
                /\ SubSeq(out, Len(out) - Len(lines) + 1, Len(out)) = lines
                /\ \A m \in RequiredModules :
                      /\ Has(out, m)
                      /\ Has(lines, m) <=> ~Has(front, m)
                      /\ ~Has(lines, m)
                         => \E i \in 1..Len(front) : front[i] = StandardImport(m)

\* ---- get_absolute_macro_path
IsAbsolute(system, path) ==
    /\ path # <<>>
    /\ IF system = "Windows"
       THEN Len(path) >= 2 /\ path[1] = "C:" /\ path[2] = "\\"
       ELSE path[1] = "/"

\* C26: the path returned for a macro name is absolute, lies in the FreeCAD
\* macro directory of the platform and ends with .FCMacro; a name that ends
\* with .FCMacro is used as it is, and the naming step applied to a name it
\* was already applied to changes nothing.
C26_MacroPath ==
    (ret # <<>> /\ arg.fn = "get_absolute_macro_path") =>
        LET path == ret[1]
            dir == MacroDir(arg.system) \o <<Sep(arg.system)>>
        IN /\ IsAbsolute(arg.system, path)
           /\ IsPrefix(dir, path)
           /\ \A i \in 1..Len(path) : path[i] # ".."
           /\ path[Len(path)] = ".FCMacro"
           /\ (arg.name # <<>> /\ arg.name[Len(arg.name)] = ".FCMacro")
              => path = dir \o arg.name
           /\ ret[2] = EnsureExtension(arg.name)

\* ------------------------------------------------------------ load_config
Missing == [t |-> "missing", s |-> <<>>, items |-> <<>>]

\* The value at a key path of a value, Missing without it.
RECURSIVE Lookup(_, _)
Lookup(v, path) ==
    IF path = <<>> THEN v
    ELSE IF v.t = "dict" /\ HasKey(v, Head(path))
    THEN Lookup(DictGet(v, Head(path)), Tail(path))
    ELSE Missing

\* The key paths of a value.
RECURSIVE PathsOf(_)
PathsOf(v) ==
    IF v.t # "dict" THEN {}
    ELSE UNION {{<<v.items[i][1]>>}
                \cup {<<v.items[i][1]>> \o p : p \in PathsOf(v.items[i][2])} :
                i \in 1..Len(v.items)}

\* The file gives no value to the path or to a path above it: the path is
\* not in the file, and the file has mappings (or nothing) above it.
Unmentioned(file, path) ==
    /\ Lookup(file, path) = Missing
    /\ \A n \in 1..(Len(path) - 1) :
          Lookup(file, SubSeq(path, 1, n)).t \in {"missing", "dict"}

\* C27: load_config returns the defaults overlaid by the file. A key path
\* of the file has the file's value (where the file and the defaults both
\* have a mapping, the mapping is merged key by key); a key path of the
\* defaults the file does not mention keeps its default value; the result
\* has no other key path; and without a file, or with one json.load or the
\* merge cannot take, the result is DEFAULT_CONFIG.
C27_DefaultsOverlaid ==
    ret # <<>> =>
        LET result == ret[1]
            file == loads(arg.text).v
        IN IF ~arg.exists \/ ~loads(arg.text).ok \/ file.t # "dict"
           THEN result = DEFAULT_CONFIG
           ELSE /\ \A p \in PathsOf(file) :
                      (Lookup(file, p).t = "dict" /\ Lookup(DEFAULT_CONFIG, p).t = "dict")
                      \/ Lookup(result, p) = Lookup(file, p)
                /\ \A p \in PathsOf(DEFAULT_CONFIG) :
                      Unmentioned(file, p)
                      => Lookup(result, p) = Lookup(DEFAULT_CONFIG, p)
                /\ PathsOf(result) = PathsOf(file) \cup
                      {p \in PathsOf(DEFAULT_CONFIG) :
                          \A n \in 1..(Len(p) - 1) :
                              Lookup(file, SubSeq(p, 1, n)).t \in {"missing", "dict"}}

\* A file that sets the port alone was loaded: the port is the file's and
\* the host is the default.
C27_Witness ==
    /\ ret # <<>>
    /\ arg.exists
    /\ loads(arg.text).v = Dict(<< << <<"server">>, Dict(<< << <<"port">>, Num >> >>) >> >>)
    /\ Lookup(ret[1], <<<<"server">>, <<"port">>>>) = Num
    /\ Lookup(ret[1], <<<<"server">>, <<"host">>>>) = Str(<<"localhost">>)

\* ------------------------------------------------- run_macro and validate
\* The text is safe to run: it parses and its tree has no violating node.
SafeText(text) ==
    /\ ~ast_parse(text).syntax
    /\ \A n \in NodesOf(ast_parse(text).tree) : ~Violating(n)

\* One line `key = repr(value)` for each parameter that is not doc_name.
AssignmentLines(params) ==
    LET keep == SelectSeq(params, LAMBDA m : m[1] # "doc_name")
    IN [i \in 1..Len(keep) |-> ParamLine(keep[i][1], py_repr(keep[i][2]))]

\* C28: run_macro gives exec one text at most; it is the macro text with
\* one assignment `key = repr(value)` for each request parameter except
\* doc_name ahead of it, and it is safe as a whole: the file's lines and the
\* injected names and values are all in the text that was validated. A
\* combined text that is not safe is not run. validate_macro_code runs the
\* code it was given (or the file's), and only when it is safe.
C28_ValidatedBeforeExec ==
    ret # <<>> =>
        LET r == ret[1]
            text == IF arg.fn = "run_macro"
                    THEN AssignmentLines(arg.params)
                         \o (IF AssignmentLines(arg.params) # <<>>
                             THEN <<BlankLine>> ELSE <<>>)
                         \o arg.file
                    ELSE IF arg.code # <<>> THEN arg.code ELSE arg.file
        IN /\ Len(r.executed) <= 1
           /\ \A i \in 1..Len(r.executed) :
                 r.executed[i] = text /\ SafeText(r.executed[i])
           /\ ~SafeText(text) => r.executed = <<>>

\* run_macro was called for a macro that is safe by itself with a parameter
\* whose name carries an import of os, and nothing was run.
C28_Witness ==
    /\ ret # <<>>
    /\ arg.fn = "run_macro"
    /\ SafeText(arg.file)
    /\ \E i \in 1..Len(arg.params) : arg.params[i][1] = "import os; x"
    /\ ret[1].executed = <<>>

\* ---------------------------------------------------- the client's tools
\* C22: the worker reads the response in chunks of at most chunk_size bytes;
\* as soon as the bytes read exceed response_limit it reads no more and
\* returns the error "Response too large"; a response that was decoded, or
\* returned by the tool as anything but an error, is within the limit.
C22_SizeLimit ==
    /\ [](/\ bridge.wpc = "reading" => Len(bridge.data) <= response_limit
          /\ Len(bridge.data) > response_limit
             => /\ bridge.wpc = "done"
                /\ bridge.wres = TransportError("Response too large")
                /\ ret # <<>> => ret[1].result = "error"
          /\ bridge.wres.result = "decoded"
             => /\ Len(bridge.data) <= response_limit
                /\ bridge.wres = DecodeResponse(bridge.data))
    /\ [][/\ Len(bridge'.data) <= Len(bridge.data) + chunk_size
          /\ Len(bridge.data) > response_limit => bridge'.data = bridge.data]_vars

\* The peer wrote a JSON text longer than the limit and the tool returned
\* the size error.
C22_Witness ==
    /\ ret = << TransportError("Response too large") >>
    /\ loads(arg.text).ok
    /\ Len(arg.text) > response_limit
    /\ Len(bridge.data) > response_limit

\* C23: a tool call ends within the tool's timeout, counted from its start,
\* whatever the peer does.
C23_RoundTripBound ==
    /\ bridge.tpc = "called" => now - bridge.start <= ToolTimeout(arg.fn)
    /\ bridge.tpc = "returned" => bridge.end - bridge.start <= ToolTimeout(arg.fn)

\* C24: what a tool returns is the response decoded from the peer's bytes,
\* or an error whose message marks a failure to connect.
C24_FailuresMarked ==
    ret # <<>> =>
        \/ ret[1] = Decoded(loads(bridge.data).v) /\ loads(bridge.data).ok
        \/ /\ ret[1].result = "error"
           /\ ret[1].message = "Failed to connect to FreeCAD server"

\* C39: normalize_macro_code applied to the text it returned returns that
\* text again, for blank code as for any other.
C39_NormalizeIdempotent ==
    (arg.fn = "normalize_macro_code" /\ Len(ret) = 2) => ret[2] = ret[1]

\* ------------------------------------------ execute_code, standard output
\* The texts the print statements of the program write, in order, up to
\* the first statement that raises.
RECURSIVE Printed(_)
Printed(program) ==
    IF program = <<>> \/ Head(program) \in {"raise", "exit"} THEN <<>>
    ELSE IF Head(program) = "rebind" THEN Printed(Tail(program))
    ELSE <<PrintedText(Head(program))>> \o Printed(Tail(program))

Rebinds(program) == \E i \in 1..Len(program) : program[i] = "rebind"

C32_FailedRunCleansUp ==
    ret # <<>> =>
        /\ (ret[1].response.result # "success" /\ arg.doc_name \notin arg.docs)
           => arg.doc_name \notin ret[1].app.docs
        /\ arg.docs \subseteq ret[1].app.docs

\* ------------------------------------------------------ the control panel
\* C38: a press of Start while the panel's server is not running (the panel
\* has none, or has one whose start failed) calls start() on a server; and
\* the Stop button is enabled exactly when the panel has a running server.
C38_StartRetries ==
    /\ [](panel.stop_button <=> panel.server = "running")
    /\ [][(panel'.presses = panel.presses + 1 /\ panel.server # "running")
          => panel'.attempts = panel.attempts + 1]_vars

\* ----------------------------------------------- the gateway's registry
ClientSet == {clients[i] : i \in 1..Len(clients)}

\* C33: between the gateway's operations the clients list, the keys of
\* buffer and the keys of client_timeouts are the same set and the list
\* names no connection twice; once stop() has run the three are empty and
\* the socket of every connection that was registered is closed.
C33_RegistryConsistent ==
    pc = "idle" =>
        /\ ClientSet = DOMAIN buffer
        /\ ClientSet = DOMAIN client_timeouts
        /\ NoDuplicates(clients)
        /\ (started /\ ~running)
           => /\ clients = <<>>
              /\ DOMAIN buffer = {}
              /\ DOMAIN client_timeouts = {}
              /\ \A c \in Conns : sock[c] # "open"

\* C35: a step of the read loop on one connection, whatever its outcome,
\* leaves every other registered connection registered, with the buffer and
\* the timestamp it had (and its socket, unless the host process exits),
\* and leaves running true.
C35_OthersUntouched ==
    [][\A c \in Conns :
          ReadOf(c) =>
              /\ running'
              /\ \A d \in ClientSet \ {c} :
                    /\ RegisteredNext(d)
                    /\ d \in DOMAIN buffer' /\ buffer'[d] = buffer[d]
                    /\ d \in DOMAIN client_timeouts'
                    /\ client_timeouts'[d] = client_timeouts[d]
                    /\ pc' # "dead" => sock'[d] = sock[d]]_vars

\* One connection was torn down for an exception of its command while
\* another is registered with bytes waiting in its buffer.
C35_Witness ==
    \E c, d \in Conns :
        /\ c # d
        /\ log[c] = "Error processing client data"
        /\ ~Registered(c)
        /\ Registered(d)
        /\ buffer[d] # <<>>

\* C37: a call of send_command_to_freecad that has returned, along any
\* path, has closed the one connection it opened.
C37_CallClosesConnection ==
    \A c \in Conns : call[c].cpc = "done" => peer[c] = "closed"

\* C34: under fair ticking, the i-th request a peer has written in full on
\* a registered connection is eventually answered on it, unless the peer
\* closes the connection or the gateway is stopped (or the clock of the
\* model has reached its bound).
C34_EventuallyAnswered ==
    \A c \in Conns : \A i \in 1..MaxSends :
        (sock[c] = "open" /\ Len(SentValues(sent[c])) >= i)
        ~> (Len(resp[c]) >= i \/ peer[c] = "closed" \/ ~running \/ now = MaxTime)

\* c waits in the listening socket's backlog.
InBacklog(c) == \E i \in 1..Len(pending) : pending[i] = c

\* The connections a step tears down, and those it registers.
TornDownBy == {c \in ClientSet : ~RegisteredNext(c)}
RegisteredBy == {c \in Conns : ~Registered(c) /\ RegisteredNext(c)}

\* Every teardown lowers the active count by one and closes the socket; a
\* registration raises it by one and starts the connection with an empty
\* buffer and the time of the accept.
SlotsAccounted ==
    [][/\ Len(clients') = Len(clients) - Cardinality(TornDownBy)
                          + Cardinality(RegisteredBy)
       /\ \A c \in TornDownBy : sock'[c] = "closed"
       /\ \A c \in RegisteredBy :
             /\ InBacklog(c)
             /\ sock'[c] = "open"
             /\ c \in DOMAIN buffer' /\ buffer'[c] = <<>>
             /\ c \in DOMAIN client_timeouts' /\ client_timeouts'[c] = now]_vars

\* C36 as stated: slots are accounted for as above, and under fair ticking
\* a connection that is in the backlog while fewer than max_clients
\* connections are active is eventually registered (unless the gateway is
\* stopped, or the clock of the model has reached its bound).
C36_PendingAccepted ==
    /\ SlotsAccounted
    /\ \A c \in Conns :
          (InBacklog(c) /\ running /\ Len(clients) < max_clients)
          ~> (Registered(c) \/ ~running \/ now = MaxTime)

\* C36, amended: slots are accounted for as above, and under fair ticking
\* the connection at the head of the backlog while fewer than max_clients
\* connections are active is eventually registered (unless the gateway is
\* stopped, or the clock of the model has reached its bound).
C36_HeadAccepted ==
    /\ SlotsAccounted
    /\ \A c \in Conns :
          (pending # <<>> /\ Head(pending) = c /\ running
           /\ Len(clients) < max_clients)
          ~> (Registered(c) \/ ~running \/ now = MaxTime)

\* A connection has been torn down, and the slot it gave back is taken:
\* max_clients connections are active again, the last of them registered
\* in this tick with an empty buffer and the time of its accept.
C36_Witness ==
    /\ Len(clients) = max_clients
    /\ \E c \in Conns :
          /\ ~Registered(c)
          /\ log[c] \in {"Client disconnected", "Error processing client data",
                       "Client data too large", "timed out"}
          /\ \E d \in ClientSet :
                d > c /\ buffer[d] = <<>> /\ client_timeouts[d] = now

====
